---------------------------- MODULE Spec2Model ----------------------------
(***************************************************************************)
(* A model of scdl's acquisition pipeline (src/scdl/scdl.py): the lock     *)
(* files, the size check, the stream copy, the ffmpeg progress loop, the   *)
(* download archive and download_track.                                    *)
(*                                                                         *)
(* The module holds several specifications over one set of variables.      *)
(* Each specification drives some groups of variables and leaves the       *)
(* others at their idle values:                                            *)
(*   SpecLock      processes that take and release locks and end           *)
(*   SpecSize      the size check                                          *)
(*   SpecCopy      one call of _write_streaming_response_to_pipe           *)
(*   SpecProgress  the progress loop of one transcode                      *)
(*   Spec          invocations on playlists, one after another             *)
(*   SpecShared    one invocation beside sibling invocations               *)
(*   SpecLedger    several processes on one download archive               *)
(*   SpecSync      sync on archives and playlists of up to MaxSyncId ids   *)
(*   SpecEncode    one call of re_encode_to_out                            *)
(*   SpecMetadata  the artist and the title of one track                   *)
(*   SpecTranscode one transcoded download, thread by thread               *)
(*   FairSpecTranscode  the same with its threads scheduled fairly         *)
(*   SpecResync    a --sync invocation and the invocation after it         *)
(*   SpecSelect    the choice of a transcoding in download_hls             *)
(*   SpecNumbering the track numbers download_playlist hands out           *)
(*   SpecLockOrder concurrent invocations, lock operation by lock operation*)
(*   SpecRerun     the metadata step of two runs on one track              *)
(***************************************************************************)
EXTENDS Integers, Sequences, FiniteSets, TLC

VARIABLES
    \* ---- lock files (get_filelock, filelock.FileLock, clean_up_locks)
    lockFile,        \* path -> whether "<path>.scdl.lock" exists
    held,            \* process -> path -> "no", "linked" or "unlinked"
    file_lock_dirs,  \* process -> the directories get_filelock recorded
    \* ---- the size check (kwargs min_size / max_size, content-length)
    min_size_arg,    \* kwargs.get("min_size"): <<>> is None, <<n>> is n
    max_size_arg,    \* kwargs.get("max_size"): <<>> is None, <<n>> is n
    total_length,    \* int(response.headers["content-length"])
    verdict,         \* "none" before the check, then "accept" or "reject"
    \* ---- _write_streaming_response_to_pipe / _copy_stream
    stream,          \* the bytes the connection delivers before it ends
    unread,          \* the part of stream response.raw has not returned yet
    sink,            \* what pipe.write has put into the pipe
    received,        \* the local `received`
    is_bytesio,      \* isinstance(pipe, io.BytesIO)
    sink_closed,     \* pipe.close() was called
    copy_pc,         \* "check", "loop", "returned", "raised", "exit1"
    \* ---- the progress loop of _re_encode_ffmpeg (times in microseconds)
    track_duration_ms,  \* the parameter track_duration_ms
    last_secs,       \* the local last_secs
    position,        \* the progress bar's position: the sum of its updates
    deltas,          \* the values passed to progress.update, in order
    out_times,       \* the values of the out_time_ms lines read, in order
    errors_output,   \* the lines kept as diagnostic text
    lines_read,      \* how many lines of stderr the loop has read
    prog_pc,         \* "loop" while stderr is read, "closed" afterwards
    \* ---- one scdl invocation after another in one directory (download_playlist)
    runs,            \* how many invocations StartInvocation has started
    kwargs,          \* the command-line options of the running invocation
    playlist,        \* playlist.tracks: the track ids, in order
    idx,             \* the 1-based position of the current track
    track,           \* the current track: its id, and what the catalog says
    pc,              \* where the invocation stands
    status,          \* "running", "returned", "exit0" or "exit1"
    filename,        \* download_track's local filename (<<>> is None)
    is_already_downloaded, \* download_track's local of that name
    files,           \* the target files that exist in the working directory
    file_writes,     \* how often the current call opened a target file for writing
    ledger,          \* the lines of the download archive, in order
    archive_exists,  \* whether the download archive file exists
    fileToKeep,      \* the global list fileToKeep
    outcome,         \* how the last download_track call ended ("none" during a call)
    at_start,        \* files, ledger, ... as they were when the current call began
    rem,             \* the set rem of the last sync that got as far as computing it
    \* ---- several processes that work on one download archive
    workers,         \* process -> where it stands, and the locals of its sync
    started,         \* how many processes have been started
    appended,        \* the ids that record_download_archive has written
    removed,         \* the ids of the rem sets of the syncs that rewrote the archive
    \* ---- one call of re_encode_to_out
    in_data,         \* "response" (a streaming response) or "url" (ffmpeg fetches it)
    original_metadata,  \* kwargs.get("original_metadata")
    container,       \* what mutagen makes of the buffer: "known", "unknown", "broken"
    encoded,         \* the buffer re_encode_to_buffer builds (<<>> before it exists)
    target,          \* the target file (<<>> while it does not exist)
    enc_pc,          \* "buffer", "tag", "write", "written", "raised", "exit1", "hung"
    \* ---- the artist of _add_metadata_to_stream (strings are sequences of characters)
    title,           \* track.title
    username,        \* track.user.username
    extract_artist,  \* kwargs.get("extract_artist")
    artist,          \* the local artist (<<>> before it is assigned)
    meta_pc,         \* "artist" before the artist is settled, "done" afterwards
    \* ---- one call of _re_encode_ffmpeg
    streaming_supported,  \* the local of that name
    stdout_thread,   \* "none" (None), "created", "started" or "finished"
    stdin_thread,    \* "none" (None), "created" or "started"; its position is copy_pc
    engine,          \* the ffmpeg process: "running" or "exited"
    returncode,      \* pipe.returncode (<<>> while ffmpeg runs)
    engine_out,      \* what ffmpeg has put out when it exits
    stdout,          \* the BytesIO stdout
    temp_file,       \* the file out_file_name of a codec that cannot be streamed
    ff_error,        \* the exception that left the call ("none" without one)
    ff_message,      \* the diagnostic text the exception carries
    ff_pc,           \* where the main thread of the call stands
    \* ---- what a --sync invocation has done, kept for the next one
    synced,          \* the playlist the last sync compared with the archive
    all_downloaded,  \* every download_track since then ended as "downloaded"
    \* ---- the choice of a transcoding in download_hls
    transcodings,    \* track.media.transcodings: preset and protocol of each
    hls_kwargs,      \* kwargs.get("onlymp3") and kwargs.get("opus")
    transcoding,     \* the local `transcoding`: <<>> is None, <<t>> is t
    preset_name,     \* the loop variable preset_name when the loop is left
    preset_ext,      \* the loop variable preset_ext, which `ext` is set from
    hls_pc,          \* "select", "selected", "raised", "returned", "transfer"
    \* ---- the track numbers of download_playlist
    fetched_tracks,  \* playlist.tracks as the playlist was fetched: the track ids
    playlist_tracks, \* playlist.tracks as download_playlist has it now
    n_arg,           \* kwargs.get("n"): <<>> is None, <<n>> is n
    sync_old,        \* the ids in the --sync archive: <<>> without --sync, <<set>> with
    playlist_offset, \* kwargs.get("playlist_offset", 0)
    tracknumber_digits,  \* the local tracknumber_digits
    counter,         \* the loop variable counter, 0 before the first track
    tracknumber,     \* playlist_info["tracknumber"]
    num_pc,          \* "prepare", "loop", "done" or "exit"
    \* ---- concurrent invocations, lock operation by lock operation
    invocations,     \* process -> its options, its track and where it stands
    \* ---- the metadata step run twice on one track
    original_title,  \* track.title as SoundCloud gives it to every run
    first_run        \* <<>>, or <<what the first run made of artist and title>>

lockVars == <<lockFile, held, file_lock_dirs>>
sizeVars == <<min_size_arg, max_size_arg, total_length, verdict>>
copyVars == <<stream, unread, sink, received, is_bytesio, sink_closed, copy_pc>>

progVars == <<track_duration_ms, last_secs, position, deltas, out_times,
              errors_output, lines_read, prog_pc>>

dlVars == <<runs, kwargs, playlist, idx, track, pc, status, filename,
            is_already_downloaded, files, file_writes, ledger, archive_exists,
            fileToKeep, outcome, at_start, rem>>

ledVars == <<workers, started, appended, removed>>

encVars == <<in_data, original_metadata, container, encoded, target, enc_pc>>

metaVars == <<title, username, extract_artist, artist, meta_pc>>

ffVars == <<streaming_supported, stdout_thread, stdin_thread, engine, returncode,
           engine_out, stdout, temp_file, ff_error, ff_message, ff_pc>>

histVars == <<synced, all_downloaded>>

selVars == <<transcodings, hls_kwargs, transcoding, preset_name, preset_ext, hls_pc>>

numVars == <<fetched_tracks, playlist_tracks, n_arg, sync_old, playlist_offset, tracknumber_digits,
            counter, tracknumber, num_pc>>

ordVars == <<invocations>>

rerunVars == <<original_title, first_run>>

vars == <<lockVars, sizeVars, copyVars, progVars, dlVars, ledVars, encVars, metaVars,
          ffVars, histVars, selVars, numVars, ordVars, rerunVars>>

-----------------------------------------------------------------------------
\* Python values: an optional integer is <<>> (None) or <<n>>.
Truthy(x) == x # <<>> /\ x[1] # 0

\* Python's `x or d`
PyOr(x, d) == IF Truthy(x) THEN x ELSE d

Min(a, b) == IF a <= b THEN a ELSE b

\* The idle values of the variable groups a specification does not drive.
SizeIdle ==
    /\ min_size_arg = <<>>
    /\ max_size_arg = <<>>
    /\ total_length = 0
    /\ verdict = "none"

CopyIdle ==
    /\ stream = <<>>
    /\ unread = <<>>
    /\ sink = <<>>
    /\ received = 0
    /\ is_bytesio = FALSE
    /\ sink_closed = FALSE
    /\ copy_pc = "idle"

ProgIdle ==
    /\ track_duration_ms = 0
    /\ last_secs = 0
    /\ position = 0
    /\ deltas = <<>>
    /\ out_times = <<>>
    /\ errors_output = <<>>
    /\ lines_read = 0
    /\ prog_pc = "idle"

NoKwargs ==
    [o \in {"c", "force_metadata", "remove", "overwrite", "download_archive",
             "sync", "strict_playlist", "only_original"} |-> FALSE]

NoTrack == [id |-> 0, policy |-> "ALLOW"]

NoSnapshot == [files |-> {}, ledger |-> <<>>, fileToKeep |-> <<>>]

DlIdle ==
    /\ runs = 0
    /\ kwargs = NoKwargs
    /\ playlist = <<>>
    /\ idx = 0
    /\ track = NoTrack
    /\ pc = "idle"
    /\ status = "returned"
    /\ filename = <<>>
    /\ is_already_downloaded = FALSE
    /\ files = {}
    /\ file_writes = 0
    /\ ledger = <<>>
    /\ archive_exists = FALSE
    /\ fileToKeep = <<>>
    /\ outcome = "none"
    /\ at_start = NoSnapshot
    /\ rem = {}

NoWorker == [pc |-> "none", old |-> <<>>, tracks |-> <<>>]

SelIdle ==
    /\ transcodings = <<>>
    /\ hls_kwargs = [onlymp3 |-> FALSE, opus |-> FALSE]
    /\ transcoding = <<>>
    /\ preset_name = <<>>
    /\ preset_ext = <<>>
    /\ hls_pc = "idle"

NumIdle ==
    /\ fetched_tracks = <<>>
    /\ playlist_tracks = <<>>
    /\ n_arg = <<>>
    /\ sync_old = <<>>
    /\ playlist_offset = 0
    /\ tracknumber_digits = 0
    /\ counter = 0
    /\ tracknumber = <<>>
    /\ num_pc = "idle"

RerunIdle ==
    /\ original_title = <<>>
    /\ first_run = <<>>

HistIdle ==
    /\ synced = <<>>
    /\ all_downloaded = FALSE

FfIdle ==
    /\ streaming_supported = FALSE
    /\ stdout_thread = "none"
    /\ stdin_thread = "none"
    /\ engine = "exited"
    /\ returncode = <<>>
    /\ engine_out = <<>>
    /\ stdout = <<>>
    /\ temp_file = <<>>
    /\ ff_error = "none"
    /\ ff_message = <<>>
    /\ ff_pc = "idle"

MetaIdle ==
    /\ title = <<>>
    /\ username = <<>>
    /\ extract_artist = FALSE
    /\ artist = <<>>
    /\ meta_pc = "idle"

EncIdle ==
    /\ in_data = "none"
    /\ original_metadata = FALSE
    /\ container = "none"
    /\ encoded = <<>>
    /\ target = <<>>
    /\ enc_pc = "idle"

-----------------------------------------------------------------------------
(***************************************************************************)
(* Lock files.                                                             *)
(*                                                                         *)
(* filelock.FileLock opens "<path>.scdl.lock" with O_CREAT and takes a     *)
(* non-blocking flock on the file it opened; the lock belongs to the open  *)
(* file, not to the name.  Releasing drops the flock and closes the        *)
(* descriptor.  A holder's file is either still linked at the lock path    *)
(* ("linked") or was unlinked while the holder kept it open ("unlinked");  *)
(* a lock file created later under the same name is another file.          *)
(***************************************************************************)
NumProcs == 2
Procs == 1..NumProcs

\* the ids of the tracks of the catalog
TrackIds == {1, 12}

\* pathlib.Path(f"./{track.id}"), the path of the per-track lock
TrackPath(id) == <<"track", id>>

\* the download archive (--download-archive / --sync) and scdl.cfg
ArchivePath == <<"archive", 0>>
ConfigPath == <<"config", 0>>

Paths == {TrackPath(id) : id \in TrackIds} \cup {ArchivePath, ConfigPath}

\* path.parent of a resolved path: the working directory for a track, the
\* archive's and the configuration's own directories otherwise
parent(path) == IF path[1] = "track" THEN "." ELSE path[1]

NoInvocation == [pc |-> "none", sync |-> FALSE, download_archive |-> FALSE, id |-> 0]

OrdIdle == invocations = [p \in Procs |-> NoInvocation]

LedIdle ==
    /\ workers = [p \in Procs |-> NoWorker]
    /\ started = 0
    /\ appended = {}
    /\ removed = {}

LockHolders(path) == {p \in Procs : held[p][path] # "no"}

\* The lock files and their holders as one value L, so that one step of a
\* process can apply several lock operations in a row.
Locks == [lockFile |-> lockFile, held |-> held, file_lock_dirs |-> file_lock_dirs]

SetLocks(L) ==
    /\ lockFile' = L.lockFile
    /\ held' = L.held
    /\ file_lock_dirs' = L.file_lock_dirs

\* get_filelock: remember the directory of the lock file
get_filelock(L, p, path) ==
    [L EXCEPT !.file_lock_dirs[p] = @ \cup {parent(path)}]

\* FileLock.acquire succeeds iff nobody holds a flock on the file now linked
\* at the lock path (a file it has just created is locked by nobody).
CanLock(L, path) ==
    ~L.lockFile[path] \/ \A q \in Procs : L.held[q][path] # "linked"

\* `with get_filelock(path, timeout)`: one acquisition attempt.  When the
\* flock is taken by another open file the attempt fails (filelock.Timeout
\* once the timeout has run out); the lock file exists afterwards either way.
acquire(L, p, path) ==
    LET opened == [get_filelock(L, p, path) EXCEPT !.lockFile[path] = TRUE]
    IN  IF CanLock(L, path)
        THEN [opened EXCEPT !.held[p][path] = "linked"]
        ELSE opened

\* a release that leaves the lock with its holder
release_kept(L, p, path) == L

\* leaving the `with` block
release(L, p, path) == [L EXCEPT !.held[p][path] = "no"]

\* the lock files clean_up_locks finds: every *.scdl.lock of a recorded directory
CleanupTargets(L, p) ==
    {path \in Paths : parent(path) \in L.file_lock_dirs[p] /\ L.lockFile[path]}

\* lock.unlink(True) inside try/except: a file nobody has open is removed; a
\* file another process has open is removed on POSIX and cannot be removed
\* on Windows (the error is ignored).
CleanupChoices(L, p) ==
    {rm \in SUBSET CleanupTargets(L, p) :
        \A path \in CleanupTargets(L, p) :
            (\A q \in Procs \ {p} : L.held[q][path] # "linked") => path \in rm}

\* Removing the lock files rm: a holder keeps its flock on the unlinked file.
unlink_locks(L, rm) ==
    [L EXCEPT !.held = [q \in Procs |-> [path \in Paths |->
                          IF path \in rm /\ L.held[q][path] = "linked"
                          THEN "unlinked" ELSE L.held[q][path]]],
              !.lockFile = [path \in Paths |-> L.lockFile[path] /\ path \notin rm]]

\* Process exit: the `with` blocks of p unwind (its locks are released),
\* then the atexit handler clean_up_locks removes the lock files rm.  The
\* process slot is reused by a new invocation with an empty file_lock_dirs.
clean_up_locks(L, p, rm) ==
    LET unwound == [L EXCEPT !.held[p] = [path \in Paths |-> "no"]]
    IN  [unlink_locks(unwound, rm) EXCEPT !.file_lock_dirs[p] = {}]

TryAcquire(p, path) ==
    /\ held[p][path] = "no"
    /\ SetLocks(acquire(Locks, p, path))

ReleaseLock(p, path) ==
    /\ held[p][path] # "no"
    /\ SetLocks(release(Locks, p, path))

ProcessExit(p) ==
    \E rm \in CleanupChoices(Locks, p) : SetLocks(clean_up_locks(Locks, p, rm))

LockIdle ==
    /\ lockFile = [path \in Paths |-> FALSE]
    /\ held = [p \in Procs |-> [path \in Paths |-> "no"]]
    /\ file_lock_dirs = [p \in Procs |-> {}]

\* C1: for every path, at most one process holds the lock on it at any time.
C1_MutualExclusion == \A path \in Paths : Cardinality(LockHolders(path)) <= 1

-----------------------------------------------------------------------------
(***************************************************************************)
(* The size check of _write_streaming_response_to_pipe (the same lines     *)
(* stand in get_transcoding_m3u8).                                         *)
(***************************************************************************)
MaxSize == 3

\* an optional size given on the command line
OptSizes == {<<>>} \cup {<<n>> : n \in 0..MaxSize}

\* A plausible slip: the upper bound taken as exclusive.
size_within_bounds_exclusive(min_arg, max_arg, length) ==
    LET min_size == PyOr(min_arg, <<0>>)
        max_size == PyOr(max_arg, <<>>)
    IN  min_size[1] <= length /\ (max_size = <<>> \/ length < max_size[1])

\*   min_size = kwargs.get("min_size") or 0
\*   max_size = kwargs.get("max_size") or math.inf
\*   if not min_size <= total_length <= max_size: raise SoundCloudException
\* <<>> as max_size stands for math.inf.
size_within_bounds(min_arg, max_arg, length) ==
    LET min_size == PyOr(min_arg, <<0>>)
        max_size == PyOr(max_arg, <<>>)
    IN  min_size[1] <= length /\ (max_size = <<>> \/ length <= max_size[1])

SizeInit ==
    /\ min_size_arg \in OptSizes
    /\ max_size_arg \in OptSizes
    /\ total_length \in 0..(MaxSize + 1)
    /\ verdict = "none"

SizeCheck ==
    /\ verdict = "none"
    /\ verdict' = IF size_within_bounds(min_size_arg, max_size_arg, total_length)
                  THEN "accept" ELSE "reject"
    /\ UNCHANGED <<min_size_arg, max_size_arg, total_length>>

\* the bounds as the claim reads them: an absent bound is no bound, a
\* configured bound (0 included) is itself
ClaimedLower == IF min_size_arg = <<>> THEN 0 ELSE min_size_arg[1]
ClaimedUpperHolds == max_size_arg = <<>> \/ total_length <= max_size_arg[1]

\* C3 (as stated): the check accepts iff min <= L <= max, an absent max
\* meaning unbounded, the configured value max = 0 included.
C3_AcceptsIffWithinBounds ==
    verdict # "none" =>
        (verdict = "accept" <=> (ClaimedLower <= total_length /\ ClaimedUpperHolds))

\* C3 (amended): the check accepts iff min <= L and, when a max other than 0
\* is configured, L <= max; an absent max and a max of 0 both mean unbounded.
C3_AcceptsIffWithinBoundsZeroMaxUnbounded ==
    verdict # "none" =>
        (verdict = "accept" <=>
            /\ ClaimedLower <= total_length
            /\ (max_size_arg \in {<<>>, <<0>>} \/ total_length <= max_size_arg[1]))

\* a transfer of non-zero length accepted under --min-size 0 --max-size 0
C3_Witness ==
    /\ verdict = "accept"
    /\ max_size_arg = <<0>>
    /\ min_size_arg = <<0>>
    /\ total_length > 0

-----------------------------------------------------------------------------
(***************************************************************************)
(* _write_streaming_response_to_pipe and _copy_stream.                     *)
(***************************************************************************)
\* the chunk size of the copy loop, scaled down (the code reads 8192 bytes)
chunk_size == 2

MaxStream == 3
Bytes == {"a", "b"}

Streams == UNION {[1..n -> Bytes] : n \in 0..MaxStream}

\* received != total_length, mistaken for "fewer than expected"
copy_incomplete_only_if_more(got, length) == got > length

\*   if received != total_length: ... sys.exit(1)
copy_incomplete(got, length) == got # length

CopyInit ==
    /\ stream \in Streams
    /\ unread = stream
    /\ sink = <<>>
    /\ received = 0
    /\ is_bytesio \in BOOLEAN
    /\ sink_closed = FALSE
    /\ copy_pc = "check"
    /\ min_size_arg \in {<<>>, <<2>>}
    /\ max_size_arg \in {<<>>, <<0>>, <<2>>}
    /\ total_length \in 0..MaxStream
    /\ verdict = "none"

\* lines 1054-1060: the size check, before any byte is read
CopySizeCheck ==
    /\ copy_pc = "check"
    /\ IF size_within_bounds(min_size_arg, max_size_arg, total_length)
       THEN verdict' = "accept" /\ copy_pc' = "loop"
       ELSE verdict' = "reject" /\ copy_pc' = "raised"
    /\ UNCHANGED <<stream, unread, sink, received, is_bytesio, sink_closed,
                   min_size_arg, max_size_arg, total_length>>

\* one round of the loop: response.raw.read(chunk_size) returns between 1 and
\* chunk_size bytes, which are counted and written to the pipe
CopyChunk ==
    /\ copy_pc = "loop"
    /\ unread # <<>>
    /\ \E n \in 1..Min(chunk_size, Len(unread)) :
        /\ received' = received + n
        /\ sink' = sink \o SubSeq(unread, 1, n)
        /\ unread' = SubSeq(unread, n + 1, Len(unread))
    /\ UNCHANGED <<stream, is_bytesio, sink_closed, copy_pc, sizeVars>>

\* read returns b'': the loop ends, the pipe is flushed, the count is checked,
\* and a pipe that is no BytesIO is closed
CopyEnd ==
    /\ copy_pc = "loop"
    /\ unread = <<>>
    /\ IF copy_incomplete(received, total_length)
       THEN copy_pc' = "exit1" /\ sink_closed' = sink_closed
       ELSE copy_pc' = "returned" /\ sink_closed' = ~is_bytesio
    /\ UNCHANGED <<stream, unread, sink, received, is_bytesio, sizeVars>>

\* C4: when the stream delivers exactly the declared number of bytes, the
\* copy returns and the sink holds exactly those bytes in order; when the
\* stream ends with another number of bytes, the copy does not return.
C4_CopyExactOrFail ==
    /\ copy_pc = "returned" => sink = stream /\ Len(sink) = total_length
    /\ copy_pc \in {"returned", "exit1"} /\ Len(stream) = total_length
            => copy_pc = "returned" /\ sink = stream
    /\ copy_pc \in {"returned", "exit1"} /\ Len(stream) # total_length
            => copy_pc = "exit1"

\* a copy of several chunks that returned
C4_Witness ==
    /\ copy_pc = "returned"
    /\ Len(sink) = MaxStream
    /\ sink = stream

-----------------------------------------------------------------------------
(***************************************************************************)
(* The progress loop of _re_encode_ffmpeg (lines 1289-1314).  Seconds are  *)
(* kept as whole microseconds: int(v) / 1_000_000 seconds is v, and        *)
(* track_duration_ms / 1000 seconds is track_duration_ms * 1000.           *)
(***************************************************************************)
MaxLines == 3

Durations == {1000, 2000}

\* the values ffmpeg may print after out_time_ms=
OutTimes == {0 - 500000, 0, 500000, 1500000, 2500000}

ProgressKeys == {"progress", "speed", "drop_frames", "dup_frames", "out_time",
                 "out_time_ms", "out_time_us", "total_size", "bitrate"}

\* A line of stderr: the text before the first "=", whether there is an "=",
\* and the text after it read as an integer (<<>> when int() raises).
StderrLines ==
    {[key |-> "out_time_ms", eq |-> TRUE, val |-> <<v>>] : v \in OutTimes}
    \cup {[key |-> "out_time_ms", eq |-> TRUE, val |-> <<>>],
          [key |-> "out_time_ms", eq |-> FALSE, val |-> <<>>],
          [key |-> "speed", eq |-> TRUE, val |-> <<>>],
          [key |-> "Invalid data found", eq |-> FALSE, val |-> <<>>]}

\* line.split('=', maxsplit=1) has two parts, the first a progress key
is_ffmpeg_progress_line(line) == line.eq /\ line.key \in ProgressKeys

\* line.startswith('out_time_ms'), for a line that is a progress line
is_out_time_ms(line) == line.key = "out_time_ms"

\*   try: seconds = int(parameters[1]) / 1_000_000
\*   except ValueError: seconds = 0
parse_seconds(line) == IF line.val = <<>> THEN 0 ELSE line.val[1]

total_sec == track_duration_ms * 1000

\* the clamp left out
clamp_seconds_missing(seconds) == seconds

\*   seconds = min(seconds, total_sec)
clamp_seconds(seconds) == Min(seconds, total_sec)

ProgInit ==
    /\ track_duration_ms \in Durations
    /\ last_secs = 0
    /\ position = 0
    /\ deltas = <<>>
    /\ out_times = <<>>
    /\ errors_output = <<>>
    /\ lines_read = 0
    /\ prog_pc = "loop"

\* a line that is no progress line is added to errors_output
ReadDiagnosticLine ==
    /\ prog_pc = "loop"
    /\ lines_read < MaxLines
    /\ \E line \in StderrLines :
        /\ ~is_ffmpeg_progress_line(line)
        /\ errors_output' = Append(errors_output, line.key)
    /\ lines_read' = lines_read + 1
    /\ UNCHANGED <<track_duration_ms, last_secs, position, deltas, out_times, prog_pc>>

\* a progress line other than out_time_ms is skipped
ReadOtherProgressLine ==
    /\ prog_pc = "loop"
    /\ \E line \in StderrLines :
        /\ is_ffmpeg_progress_line(line)
        /\ ~is_out_time_ms(line)
    /\ lines_read < MaxLines
    /\ lines_read' = lines_read + 1
    /\ UNCHANGED <<track_duration_ms, last_secs, position, deltas, out_times,
                   errors_output, prog_pc>>

\* an out_time_ms line: the delta to the last position is reported
ReadOutTimeLine ==
    /\ prog_pc = "loop"
    /\ lines_read < MaxLines
    /\ lines_read' = lines_read + 1
    /\ \E line \in StderrLines :
        /\ is_ffmpeg_progress_line(line)
        /\ is_out_time_ms(line)
        /\ LET seconds == clamp_seconds(parse_seconds(line))
               changed == seconds - last_secs
           IN  /\ last_secs' = seconds
               /\ deltas' = Append(deltas, changed)
               /\ position' = position + changed
               /\ out_times' = Append(out_times, line.val)
    /\ UNCHANGED <<track_duration_ms, errors_output, prog_pc>>

\* readline returns '': ffmpeg has closed stderr
StderrClosed ==
    /\ prog_pc = "loop"
    /\ prog_pc' = "closed"
    /\ UNCHANGED <<track_duration_ms, last_secs, position, deltas, out_times,
                   errors_output, lines_read>>

\* C6: every delta passed to the progress observer is >= 0.
C6_DeltasNonNegative == \A i \in DOMAIN deltas : deltas[i] >= 0

\* the out_time_ms values read so far are integers within [0, duration] that
\* never decrease
NonDecreasingInRange ==
    /\ \A i \in DOMAIN out_times :
            out_times[i] # <<>> /\ out_times[i][1] >= 0 /\ out_times[i][1] <= total_sec
    /\ \A i \in DOMAIN out_times : i > 1 => out_times[i - 1][1] <= out_times[i][1]

\* C7: after every progress line the reported position is at most the
\* track's duration, and for a non-decreasing sequence of in-range values
\* the deltas are the successive differences.
C7_PositionWithinDuration ==
    /\ position <= track_duration_ms * 1000
    /\ NonDecreasingInRange =>
            \A i \in DOMAIN deltas :
                deltas[i] = out_times[i][1] - (IF i = 1 THEN 0 ELSE out_times[i - 1][1])

\* out_time_ms=500000 then out_time_ms=1500000 on a 2000 ms track: deltas 0.5 s
\* and 1.0 s, final position 1.5 s
C7_Witness ==
    /\ track_duration_ms = 2000
    /\ out_times = <<(<<500000>>), (<<1500000>>)>>
    /\ deltas = <<500000, 1000000>>
    /\ position = 1500000

-----------------------------------------------------------------------------
(***************************************************************************)
(* The download archive.  A line of the archive is the sequence of its     *)
(* decimal digits; the archive is the sequence of its lines.               *)
(***************************************************************************)
RECURSIVE py_str(_)
\* str(track.id)
py_str(n) == IF n < 10 THEN <<n>> ELSE py_str(n \div 10) \o <<n % 10>>

RECURSIVE digits_value(_)
digits_value(d) ==
    IF d = <<>> THEN 0 ELSE 10 * digits_value(SubSeq(d, 1, Len(d) - 1)) + d[Len(d)]

\* int(text): <<>> stands for ValueError (the empty string)
py_int(text) == IF text = <<>> THEN <<>> ELSE <<digits_value(text)>>

Range(f) == {f[i] : i \in DOMAIN f}

\* the membership check with the file opened "w+" instead of "a+"
in_download_archive_truncating(kw, lines, exists, id, lockable) ==
    IF ~kw.download_archive \/ ~lockable
    THEN [found |-> FALSE, lines |-> lines, exists |-> exists]
    ELSE [found |-> FALSE, lines |-> <<>>, exists |-> TRUE]

\* in_download_archive: under the archive lock the file is opened "a+" (which
\* creates it), and each line is compared with str(track.id).  A lock that
\* cannot be had raises filelock.Timeout, an OSError, which the except clause
\* logs; the answer is then False.
in_download_archive(kw, lines, exists, id, lockable) ==
    IF ~kw.download_archive \/ ~lockable
    THEN [found |-> FALSE, lines |-> lines, exists |-> exists]
    ELSE [found |-> \E i \in DOMAIN lines : lines[i] = py_str(id),
          lines |-> lines, exists |-> TRUE]

\* an append that leaves out an id the archive already holds
record_download_archive_once(kw, lines, exists, id, lockable) ==
    IF ~kw.download_archive \/ ~lockable \/ \E i \in DOMAIN lines : lines[i] = py_str(id)
    THEN [lines |-> lines, exists |-> exists]
    ELSE [lines |-> Append(lines, py_str(id)), exists |-> TRUE]

\* record_download_archive: under the archive lock, append "<id>\n"
record_download_archive(kw, lines, exists, id, lockable) ==
    IF ~kw.download_archive \/ ~lockable
    THEN [lines |-> lines, exists |-> exists]
    ELSE [lines |-> Append(lines, py_str(id)), exists |-> TRUE]

\* sync, line 508: the ids of the archive; ok is FALSE when int() raises
\* ValueError, which an empty archive does
read_archive(lines) ==
    [ok |-> lines # <<>> /\ \A i \in DOMAIN lines : py_int(lines[i]) # <<>>,
     ids |-> [i \in DOMAIN lines |-> IF py_int(lines[i]) = <<>> THEN 0
                                     ELSE py_int(lines[i])[1]]]

\* everything of the playlist taken as new
sync_add_all(old, new) == Range(new)

\* everything of the archive taken as gone
sync_rem_all(old, new) == Range(old)

\* nothing of the playlist taken as new
sync_add_none(old, new) == {}

\* sync, lines 520-522
sync_add(old, new) == Range(new) \ Range(old)
sync_rem(old, new) == Range(old) \ Range(new)

\* a rewrite that drops only the ids whose file was found
sync_rewrite_keeping(old, gone) == [i \in DOMAIN old |-> py_str(old[i])]

\* sync, lines 544-547: the archive as rewritten
sync_rewrite(old, gone) ==
    LET Kept(id) == id \notin gone
        kept == SelectSeq(old, Kept)
    IN  [i \in DOMAIN kept |-> py_str(kept[i])]

\* sync, line 552: the tracks still to download
sync_tracks(tracks, add) ==
    LET Added(id) == id \in add
    IN  SelectSeq(tracks, Added)

-----------------------------------------------------------------------------
(***************************************************************************)
(* download_playlist and download_track: invocations of scdl that run one  *)
(* after another in one working directory (no playlist folder), each on a  *)
(* playlist, while sibling invocations take and release locks there.  The  *)
(* options --flac and a name format of "-" are not set.                    *)
(***************************************************************************)
MaxRuns == 2
MaxTracks == 2
MaxOptions == 3

\* the invocation that is followed step by step, and the others
Me == CHOOSE p \in Procs : \A q \in Procs : p <= q
Siblings == Procs \ {Me}

\* a playlist holds a track once
Playlists ==
    {tracks \in UNION {[1..n -> TrackIds] : n \in 1..MaxTracks} :
        \A i, j \in DOMAIN tracks : tracks[i] = tracks[j] => i = j}

\* the options of the model
Options == {"c", "force_metadata", "remove", "overwrite", "download_archive",
            "sync", "strict_playlist", "only_original"}

\* the options a command line gives: --sync makes its file the download archive
Given(kw) == {o \in Options : kw[o] /\ ~(o = "download_archive" /\ kw.sync)}

\* docopt: -c and --force-metadata exclude each other; main() makes the
\* --sync file the download archive; at most MaxOptions options are given
KwargsSet ==
    {kw \in [Options -> BOOLEAN] :
        /\ Cardinality(Given(kw)) <= MaxOptions
        /\ ~(kw.c /\ kw.force_metadata)
        /\ kw.sync => kw.download_archive}

OriginalExt == ".wav"
HlsExt == ".mp3"

\* get_filename: the name is made of the track and the extension
get_filename(id, ext) == <<id, ext>>

\* `with get_filelock(archive_filename)` entered and left again
archive_lock_used(kw, L) ==
    IF kw.download_archive
    THEN release(acquire(L, Me, ArchivePath), Me, ArchivePath)
    ELSE L

\* already_downloaded that returns True for every file that is there
already_downloaded_skipping(kw, fname, id, fs, lines, exists, lockable) ==
    LET check == in_download_archive(kw, lines, exists, id, lockable)
        found == fname \in fs \/ check.found
    IN  [result |-> IF found /\ ~kw.overwrite THEN "true" ELSE "false",
         lines |-> check.lines,
         exists |-> check.exists]

\* an existence check that lets --force-metadata fetch the track again
already_downloaded_refetching(kw, fname, id, fs, lines, exists, lockable) ==
    LET check == in_download_archive(kw, lines, exists, id, lockable)
        found == fname \in fs \/ check.found
        already == found /\ ~kw.overwrite /\ ~kw.force_metadata
    IN  [result |-> IF ~already THEN "false"
                    ELSE IF kw.c \/ kw.remove THEN "true"
                    ELSE "exit",
         lines |-> check.lines,
         exists |-> check.exists]

\* already_downloaded: "exit" stands for sys.exit(1)
already_downloaded(kw, fname, id, fs, lines, exists, lockable) ==
    LET check == in_download_archive(kw, lines, exists, id, lockable)
        found == fname \in fs \/ check.found
        already == found /\ ~kw.overwrite
    IN  [result |-> IF ~already THEN "false"
                    ELSE IF kw.c \/ kw.remove \/ kw.force_metadata THEN "true"
                    ELSE "exit",
         lines |-> check.lines,
         exists |-> check.exists]

\* a lock timeout treated like any other failure of the track
on_lock_timeout_as_error(kw) == IF kw.strict_playlist THEN "exit1" ELSE "none"

\*   except filelock.Timeout: logger.debug(...); return
on_lock_timeout(kw) == "none"

\* a handler that ends the process whatever exit_on_fail says
on_error_fatal(kw) == "exit1"

\*   except SoundCloudException as err: logger.error(err)
\*       if exit_on_fail: sys.exit(1)
\* with exit_on_fail = kwargs.get("strict_playlist") (line 604)
on_error(kw) == IF kw.strict_playlist THEN "exit1" ELSE "none"

\* The process ends: its memory is gone, its `with` blocks unwind and the
\* atexit handler clean_up_locks runs.
Leave(exit, L) ==
    /\ pc' = "idle"
    /\ status' = exit
    /\ kwargs' = NoKwargs
    /\ playlist' = <<>>
    /\ idx' = 0
    /\ at_start' = NoSnapshot
    /\ \E rm \in CleanupChoices(L, Me) : SetLocks(clean_up_locks(L, Me, rm))

\* The process goes on at next_pc.
Stay(next_pc, L) ==
    /\ pc' = next_pc
    /\ SetLocks(L)
    /\ UNCHANGED <<status, kwargs, playlist, idx, at_start>>

\* The call of download_track ends as `how`: it returns to the loop
\* (exit = "none") or the process exits.
EndCall(how, exit, L) ==
    /\ outcome' = how
    /\ track' = NoTrack
    /\ filename' = <<>>
    /\ is_already_downloaded' = FALSE
    /\ IF exit = "none" THEN Stay("next", L) ELSE Leave(exit, L)

\* lines 871-873: no original file was found
AfterNoOriginal(L) ==
    IF kwargs.only_original
    THEN EndCall("original_unavailable", on_error(kwargs), L)
    ELSE /\ Stay("hls_lock", L)
         /\ UNCHANGED <<outcome, track, filename, is_already_downloaded>>

\* main(): get_config under the configuration lock, then download_url
StartInvocation ==
    /\ pc = "idle"
    /\ runs < MaxRuns
    /\ runs' = runs + 1
    /\ \E kw \in KwargsSet, tracks \in Playlists :
        /\ kwargs' = kw
        /\ playlist' = tracks
        /\ pc' = IF kw.sync THEN "sync" ELSE "next"
    /\ idx' = 0
    /\ status' = "running"
    /\ fileToKeep' = <<>>
    /\ outcome' = "none"
    /\ file_writes' = 0
    /\ rem' = {}
    /\ at_start' = NoSnapshot
    /\ SetLocks(release(acquire(Locks, Me, ConfigPath), Me, ConfigPath))
    /\ UNCHANGED <<track, filename, is_already_downloaded, files, ledger,
                   archive_exists>>

\* download_playlist, lines 586-591, and sync
SyncArchive ==
    /\ pc = "sync"
    /\ LET old == read_archive(ledger)
           add == sync_add(old.ids, playlist)
           gone == sync_rem(old.ids, playlist)
           La == release(acquire(Locks, Me, ArchivePath), Me, ArchivePath)
       IN  IF ~archive_exists
           THEN Leave("exit1", Locks) /\ UNCHANGED <<files, ledger, rem>>
           ELSE IF ~CanLock(Locks, ArchivePath) \/ ~old.ok
           THEN Leave("exit1", La) /\ UNCHANGED <<files, ledger, rem>>
           ELSE IF add = {} /\ gone = {}
           THEN Leave("exit0", La) /\ UNCHANGED <<files, ledger, rem>>
           ELSE /\ rem' = gone
                /\ files' = {f \in files : f[1] \notin gone}
                /\ ledger' = IF gone # {} THEN sync_rewrite(old.ids, gone) ELSE ledger
                /\ IF add = {}
                   THEN Leave("exit0", La)
                   ELSE /\ playlist' = sync_tracks(playlist, add)
                        /\ pc' = "next"
                        /\ SetLocks(La)
                        /\ UNCHANGED <<status, kwargs, idx, at_start>>
    /\ UNCHANGED <<runs, track, filename, is_already_downloaded, file_writes,
                   archive_exists, fileToKeep, outcome>>

\* the loop of download_playlist reaches the next track and calls download_track
NextTrack ==
    /\ pc = "next"
    /\ idx < Len(playlist)
    /\ idx' = idx + 1
    /\ pc' = "begin"
    /\ \E policy \in {"ALLOW", "BLOCK"} :
        track' = [id |-> playlist[idx + 1], policy |-> policy]
    /\ at_start' = [files |-> files, ledger |-> ledger, fileToKeep |-> fileToKeep]
    /\ file_writes' = 0
    /\ outcome' = "none"
    /\ UNCHANGED <<runs, kwargs, playlist, rem, status, filename,
                   is_already_downloaded, files, ledger, archive_exists,
                   fileToKeep, lockVars>>

\* a policy check that lets every track through
is_blocked_never(policy) == FALSE

\*   if track.policy == "BLOCK": raise SoundCloudException(...)
is_blocked(policy) == policy = "BLOCK"

\* download_track, lines 833-860: the policy, and whether the original file is
\* asked for (the track is downloadable, a token is set, the options allow it)
BeginTrack ==
    /\ pc = "begin"
    /\ \E original \in BOOLEAN :
        IF is_blocked(track.policy)
        THEN EndCall("blocked", on_error(kwargs), Locks)
        ELSE IF original
        THEN /\ Stay("orig_lock", Locks)
             /\ UNCHANGED <<outcome, track, filename, is_already_downloaded>>
        ELSE AfterNoOriginal(Locks)
    /\ UNCHANGED <<runs, rem, files, file_writes, ledger, archive_exists, fileToKeep>>

\* `with lock:` around download_original_file (lines 861-869)
AcquireForOriginal ==
    /\ pc = "orig_lock"
    /\ LET path == TrackPath(track.id)
       IN  IF CanLock(Locks, path)
           THEN /\ Stay("orig", acquire(Locks, Me, path))
                /\ UNCHANGED <<outcome, track, filename, is_already_downloaded>>
           ELSE EndCall("lock_busy", on_lock_timeout(kwargs), acquire(Locks, Me, path))
    /\ UNCHANGED <<runs, rem, files, file_writes, ledger, archive_exists, fileToKeep>>

\* the file was there already, or is there now (lines 727-740, 803-820)
Acquired(fname, already, L) ==
    /\ Stay("finalize", L)
    /\ filename' = <<fname>>
    /\ is_already_downloaded' = already
    /\ files' = IF already THEN files ELSE files \cup {fname}
    /\ file_writes' = IF already THEN file_writes ELSE file_writes + 1
    /\ UNCHANGED <<outcome, track>>

\* download_original_file under the track lock, and the release of the lock
DownloadOriginal ==
    /\ pc = "orig"
    /\ \E response \in {"unavailable", "no_filename", "ok"},
          transfer \in {"ok", "size", "truncated"} :
        LET id == track.id
            fname == get_filename(id, OriginalExt)
            ad == already_downloaded(kwargs, fname, id, files, ledger, archive_exists,
                                     CanLock(Locks, ArchivePath))
            Lr == release(Locks, Me, TrackPath(id))
            La == release(archive_lock_used(kwargs, Locks), Me, TrackPath(id))
        IN  IF response # "ok"
            THEN /\ IF response = "unavailable"
                    THEN AfterNoOriginal(Lr)
                    ELSE EndCall("no_filename", on_error(kwargs), Lr)
                 /\ UNCHANGED <<files, file_writes, ledger, archive_exists>>
            ELSE /\ ledger' = ad.lines
                 /\ archive_exists' = ad.exists
                 /\ CASE ad.result = "exit" ->
                            /\ EndCall("already_exists", "exit1", La)
                            /\ UNCHANGED <<files, file_writes>>
                      [] ad.result = "true" -> Acquired(fname, TRUE, La)
                      [] ad.result = "false" /\ transfer = "size" ->
                            /\ EndCall("size", on_error(kwargs), La)
                            /\ UNCHANGED <<files, file_writes>>
                      [] ad.result = "false" /\ transfer = "truncated" ->
                            /\ EndCall("truncated", "exit1", La)
                            /\ UNCHANGED <<files, file_writes>>
                      [] ad.result = "false" /\ transfer = "ok" ->
                            Acquired(fname, FALSE, La)
    /\ UNCHANGED <<runs, rem, fileToKeep>>

\* `with lock:` around download_hls (lines 874-881)
AcquireForHls ==
    /\ pc = "hls_lock"
    /\ LET path == TrackPath(track.id)
       IN  IF CanLock(Locks, path)
           THEN /\ Stay("hls", acquire(Locks, Me, path))
                /\ UNCHANGED <<outcome, track, filename, is_already_downloaded>>
           ELSE EndCall("lock_busy", on_lock_timeout(kwargs), acquire(Locks, Me, path))
    /\ UNCHANGED <<runs, rem, files, file_writes, ledger, archive_exists, fileToKeep>>

\* download_hls under the track lock, and the release of the lock
DownloadHls ==
    /\ pc = "hls"
    /\ \E response \in {"no_transcoding", "ok"},
          transfer \in {"ok", "size", "ffmpeg_error"} :
        LET id == track.id
            fname == get_filename(id, HlsExt)
            ad == already_downloaded(kwargs, fname, id, files, ledger, archive_exists,
                                     CanLock(Locks, ArchivePath))
            Lr == release(Locks, Me, TrackPath(id))
            La == release(archive_lock_used(kwargs, Locks), Me, TrackPath(id))
        IN  IF response # "ok"
            THEN /\ EndCall("no_transcoding", on_error(kwargs), Lr)
                 /\ UNCHANGED <<files, file_writes, ledger, archive_exists>>
            ELSE /\ ledger' = ad.lines
                 /\ archive_exists' = ad.exists
                 /\ CASE ad.result = "exit" ->
                            /\ EndCall("already_exists", "exit1", La)
                            /\ UNCHANGED <<files, file_writes>>
                      [] ad.result = "true" -> Acquired(fname, TRUE, La)
                      [] ad.result = "false" /\ transfer = "size" ->
                            /\ EndCall("size", on_error(kwargs), La)
                            /\ UNCHANGED <<files, file_writes>>
                      [] ad.result = "false" /\ transfer = "ffmpeg_error" ->
                            /\ EndCall("ffmpeg_error", on_error(kwargs), La)
                            /\ UNCHANGED <<files, file_writes>>
                      [] ad.result = "false" /\ transfer = "ok" ->
                            Acquired(fname, FALSE, La)
    /\ UNCHANGED <<runs, rem, fileToKeep>>

\* download_track, lines 883-915: the keep list, the archive, the checks and the
\* metadata of a file that was there already
Finalize ==
    /\ pc = "finalize"
    /\ LET id == track.id
           fname == filename[1]
           rec == record_download_archive(kwargs, ledger, archive_exists, id,
                                          CanLock(Locks, ArchivePath))
           La == archive_lock_used(kwargs, Locks)
       IN  /\ fileToKeep' = IF kwargs.remove THEN Append(fileToKeep, fname) ELSE fileToKeep
           /\ ledger' = rec.lines
           /\ archive_exists' = rec.exists
           /\ IF is_already_downloaded /\ ~kwargs.force_metadata
              THEN /\ EndCall("already_downloaded", on_error(kwargs), La)
                   /\ UNCHANGED file_writes
              ELSE IF fname \notin files
              THEN /\ EndCall("missing", on_error(kwargs), La)
                   /\ UNCHANGED file_writes
              ELSE /\ EndCall("downloaded", "none", La)
                   /\ file_writes' = IF is_already_downloaded THEN file_writes + 1
                                     ELSE file_writes
    /\ UNCHANGED <<runs, rem, files>>

\* remove_files: every regular file of "." that is not in fileToKeep goes
remove_files(fs, keep) == fs \cap Range(keep)

\* the loop of download_playlist is over: main() runs remove_files if --remove
\* is set (the lock files of the tracks are files of "." too) and returns
ReturnFromMain ==
    /\ pc = "next"
    /\ idx = Len(playlist)
    /\ files' = IF kwargs.remove THEN remove_files(files, fileToKeep) ELSE files
    /\ LET here == {TrackPath(id) : id \in TrackIds}
           Lr == IF kwargs.remove THEN unlink_locks(Locks, here) ELSE Locks
       IN  Leave("returned", Lr)
    /\ UNCHANGED <<runs, rem, track, filename, is_already_downloaded, file_writes,
                   ledger, archive_exists, fileToKeep, outcome>>

\* the locks a sibling invocation is seen to hold: a track's or the archive's
\* (it has the configuration's only for an instant)
SiblingPaths == Paths \ {ConfigPath}

\* another invocation in the same directory takes a lock ...
SiblingAcquire(q, path) ==
    /\ \A other \in Paths : held[q][other] = "no"
    /\ TryAcquire(q, path)
    /\ UNCHANGED dlVars

\* ... and ends: it releases the lock and cleans up
SiblingExit(q) ==
    /\ \E path \in Paths : held[q][path] # "no"
    /\ ProcessExit(q)
    /\ UNCHANGED dlVars

\* C2: when download_track finds the per-track lock held by another worker,
\* it returns without error: it writes no target file, appends nothing to the
\* ledger, adds nothing to the keep list and does not terminate the
\* invocation, whether or not strict mode is set.
C2_LockBusySkipsTrack ==
    outcome = "lock_busy" =>
        /\ status \in {"running", "returned"}
        /\ pc = "next" =>
            /\ status = "running"
            /\ files = at_start.files
            /\ file_writes = 0
            /\ ledger = at_start.ledger
            /\ fileToKeep = at_start.fileToKeep

\* in strict mode the first track of two was skipped for its lock, and the
\* loop stands before the second
C2_Witness ==
    /\ outcome = "lock_busy"
    /\ pc = "next"
    /\ status = "running"
    /\ kwargs.strict_playlist
    /\ idx < Len(playlist)
    /\ \E q \in Siblings : held[q][TrackPath(playlist[idx])] = "linked"

\* C5: without strict mode, a stream that ends prematurely while track k is
\* copied fails only track k: the invocation keeps running and the track
\* after k is still attempted.
C5_TruncationFailsOnlyTheTrack ==
    [][(outcome' = "truncated" /\ pc = "orig" /\ ~kwargs.strict_playlist)
            => (status' = "running" /\ pc' = "next")]_vars

\* C8: no track ID appears on more than one line of the ledger.
C8_NoDuplicateIds ==
    \A i, j \in DOMAIN ledger : ledger[i] = ledger[j] => i = j

\* the track IDs that stand in the ledger and not in the playlist
ToRemove ==
    {id \in TrackIds : py_str(id) \in Range(ledger) /\ id \notin Range(playlist)}

\* one line was added at the end, the earlier lines are as they were
IsAppend ==
    /\ Len(ledger') = Len(ledger) + 1
    /\ SubSeq(ledger', 1, Len(ledger)) = ledger

\* exactly the old lines whose IDs are not in ToRemove are left, in their order
IsSyncRewrite ==
    LET Kept(line) == \A id \in ToRemove : line # py_str(id)
    IN  pc = "sync" /\ ledger' = SelectSeq(ledger, Kept)

\* C9: every step that changes the ledger is an append of exactly one line at
\* the end or the sync rewrite; the membership check never changes the ledger.
C9_LedgerAppendOrRewrite ==
    [][/\ ledger' # ledger => (IsAppend \/ IsSyncRewrite)
       /\ pc \in {"orig", "hls"} => ledger' = ledger]_vars

\* a sync has rewritten a ledger of several lines and has left some of them,
\* after appends and membership checks of an earlier invocation
C9_Witness ==
    /\ runs = MaxRuns
    /\ status = "exit0"
    /\ rem # {}
    /\ ledger # <<>>

\* the step of download_original_file or download_hls got its response and
\* reaches the call of already_downloaded
ReachesExistenceCheck ==
    /\ pc \in {"orig", "hls"}
    /\ pc' # "hls_lock"
    /\ outcome' \notin {"original_unavailable", "no_filename", "no_transcoding"}

\* the file name the step is about to write
TargetFilename ==
    get_filename(track.id, IF pc = "orig" THEN OriginalExt ELSE HlsExt)

\* C13: if the target file name of a track exists already and none of -c,
\* --force-metadata, --overwrite and --remove is given, the invocation ends
\* at that track with exit status 1, with or without --strict-playlist: the
\* file is not written and no later track is attempted.
C13_ExistingFileStopsInvocation ==
    [][(/\ ReachesExistenceCheck
        /\ TargetFilename \in files
        /\ ~(kwargs.c \/ kwargs.force_metadata \/ kwargs.overwrite \/ kwargs.remove))
            => /\ outcome' = "already_exists"
               /\ status' = "exit1"
               /\ pc' = "idle"
               /\ files' = files
               /\ file_writes' = file_writes]_vars

\* an invocation has ended on a file that an earlier one left, with no
\* archive in play
C13_Witness ==
    /\ outcome = "already_exists"
    /\ status = "exit1"
    /\ pc = "idle"
    /\ runs = MaxRuns
    /\ files # {}
    /\ ledger = <<>>
    /\ file_writes = 0

\* C14: whenever download_track has ended (it returned, a SoundCloudException
\* was caught, the track was skipped for its lock, or sys.exit was raised
\* under the lock), the process holds neither a track's lock nor the
\* archive's.
C14_NoLockHeldAfterTrack ==
    pc \in {"next", "idle"} =>
        /\ \A id \in TrackIds : held[Me][TrackPath(id)] = "no"
        /\ held[Me][ArchivePath] = "no"

\* an exception was raised under the track lock after the archive was
\* consulted, it was caught, and the loop goes on
C14_Witness ==
    /\ pc = "next"
    /\ outcome = "size"
    /\ kwargs.download_archive
    /\ idx < Len(playlist)
    /\ lockFile[TrackPath(playlist[idx])]
    /\ lockFile[ArchivePath]

\* the errors of a track that are raised as SoundCloudException: the track
\* is blocked, has no transcoding, has no original file although only the
\* original is wanted, or its file is not there after the download
TrackErrors == {"blocked", "no_transcoding", "original_unavailable", "missing"}

\* C16: in a batch, a blocked-track, no-transcoding, original-unavailable or
\* post-download-verification error on track k ends the invocation if and
\* only if --strict-playlist is set; without it the loop stands before the
\* track after k.
C16_TrackErrorFatalIffStrict ==
    [][(pc \in {"begin", "orig", "hls", "finalize"} /\ outcome' \in TrackErrors) =>
            IF kwargs.strict_playlist
            THEN status' = "exit1" /\ pc' = "idle"
            ELSE /\ status' = "running"
                 /\ pc' = "next"
                 /\ idx' = idx
                 /\ playlist' = playlist]_vars

\* without --strict-playlist the first track of two had no transcoding, and
\* the loop stands before the second
C16_Witness ==
    /\ outcome = "no_transcoding"
    /\ pc = "next"
    /\ status = "running"
    /\ ~kwargs.strict_playlist
    /\ idx = 1
    /\ Len(playlist) = 2

\* C17: a track whose declared length is outside --min-size / --max-size is
\* skipped and the batch goes on, with or without --strict-playlist: after
\* the failed size check the invocation is running and stands before the
\* next track.
C17_SizeBoundSkipsTrack ==
    [][(pc \in {"orig", "hls"} /\ outcome' = "size")
            => (status' = "running" /\ pc' = "next")]_vars

\* the step at hand asks for a lock that another process holds, and does
\* nothing else that could fail: sync asks for the archive's lock,
\* download_track for the track's
LockTimeoutInStep ==
    \/ pc = "sync" /\ archive_exists /\ ~CanLock(Locks, ArchivePath)
    \/ pc \in {"orig_lock", "hls_lock"} /\ ~CanLock(Locks, TrackPath(track.id))

\* C18: a timeout while a lock is acquired never ends the invocation: the
\* operation is skipped, the invocation is running afterwards and goes on.
C18_LockTimeoutNeverFatal ==
    [][LockTimeoutInStep => (status' = "running" /\ pc' = "next")]_vars

\* C19: when the archive cannot be parsed during sync, the failure is logged
\* and the invocation goes on; it never ends the invocation.
C19_ArchiveFailureNeverFatal ==
    [][(pc = "sync" /\ archive_exists /\ ~read_archive(ledger).ok)
            => status' = "running"]_vars

\* C25: with an archive configured, the step of download_track that follows
\* the acquisition appends the track's id to the archive, for a file freshly
\* downloaded as for one already present, and it does so before the checks
\* of that step: the id is appended also when the step ends with "already
\* downloaded" or with the output file missing.
C25_AppendBeforeExistenceCheck ==
    [][pc = "finalize" /\ kwargs.download_archive
            => /\ ledger' = Append(ledger, py_str(track.id))
               /\ archive_exists']_vars

\* the output file was missing after the acquisition, and the id of the
\* track is the new last line of the archive all the same
C25_Witness ==
    /\ outcome = "missing"
    /\ pc = "next"
    /\ kwargs.download_archive
    /\ ledger = Append(at_start.ledger, py_str(playlist[idx]))

\* a track that was already present and archived was appended once more
\* before "already downloaded" was raised
C25_AppendedWhenPresent ==
    /\ outcome = "already_downloaded"
    /\ pc = "next"
    /\ kwargs.download_archive
    /\ at_start.ledger # <<>>
    /\ ledger = Append(at_start.ledger, py_str(playlist[idx]))

\* C26: every write to a track's target file, the write of a fresh download
\* and the rewrite of --force-metadata, is made while the process holds the
\* lock of that track.
C26_WritesUnderTrackLock ==
    [][file_writes' > file_writes => held[Me][TrackPath(track.id)] # "no"]_vars

\* the fresh download is written under the lock of its track
FreshWriteUnderTrackLock ==
    [][file_writes' > file_writes /\ pc # "finalize"
            => held[Me][TrackPath(track.id)] # "no"]_vars

\* the file of a track was rewritten by --force-metadata, by a step that
\* began with no lock held
C26_RewrittenWithoutLock ==
    /\ outcome = "downloaded"
    /\ kwargs.force_metadata
    /\ file_writes = 1
    /\ files = at_start.files
    /\ \A path \in Paths : held[Me][path] = "no"

\* the acquisition step finds the target file and starts no download: it
\* hands the file name on as already downloaded and writes nothing
AcquisitionSkipped ==
    /\ pc' = "finalize"
    /\ is_already_downloaded'
    /\ filename' = <<TargetFilename>>
    /\ files' = files
    /\ file_writes' = file_writes

\* the step after the acquisition rewrites the file that is there: one
\* write, of that file, and no file more or less
RewrittenInPlace ==
    /\ outcome' = "downloaded"
    /\ files' = files
    /\ file_writes = 0
    /\ file_writes' = 1

C30_BlockedTrackFailsFirst ==
    [][pc = "begin" /\ track.policy = "BLOCK"
            => /\ outcome' = "blocked"
               /\ pc' \in {"next", "idle"}
               /\ status' = (IF kwargs.strict_playlist THEN "exit1" ELSE status)
               /\ \A path \in Paths : /\ held'[Me][path] = "no"
                                      /\ lockFile'[path] => lockFile[path]
               /\ files' = files
               /\ file_writes' = file_writes
               /\ file_writes = 0
               /\ ledger' = ledger
               /\ archive_exists' = archive_exists]_vars

\* the first track of an invocation with an archive was blocked: there is
\* no lock file of the track, no file and no archive
C30_Witness ==
    /\ outcome = "blocked"
    /\ pc = "next"
    /\ idx = 1
    /\ runs = 1
    /\ kwargs.download_archive
    /\ ~lockFile[TrackPath(playlist[1])]
    /\ files = {}
    /\ ledger = <<>>
    /\ ~archive_exists

-----------------------------------------------------------------------------
(***************************************************************************)
(* Several processes that work on one download archive: each checks        *)
(* membership, appends and syncs, and ends at some point; a process that   *)
(* has ended makes room for a new one.                                     *)
(***************************************************************************)
MaxWorkers == 3
MaxLedger == 3

\* kwargs with --download-archive set
ArchiveKwargs == [NoKwargs EXCEPT !.download_archive = TRUE]

\* the process p ends: its `with` blocks unwind and clean_up_locks runs
WorkerEnds(p, L) ==
    /\ workers' = [workers EXCEPT ![p] = NoWorker]
    /\ \E rm \in CleanupChoices(L, p) : SetLocks(clean_up_locks(L, p, rm))

\* a process starts
WorkerStart(p) ==
    /\ workers[p].pc = "none"
    /\ started < MaxWorkers
    /\ started' = started + 1
    /\ workers' = [workers EXCEPT ![p].pc = "running"]
    /\ UNCHANGED <<lockVars, ledger, archive_exists, files, appended, removed>>

\* in_download_archive(track) with the id of the track
WorkerCheck(p, id) ==
    /\ workers[p].pc = "running"
    /\ LET check == in_download_archive(ArchiveKwargs, ledger, archive_exists, id,
                                        CanLock(Locks, ArchivePath))
       IN  /\ ledger' = check.lines
           /\ archive_exists' = check.exists
    /\ SetLocks(release(acquire(Locks, p, ArchivePath), p, ArchivePath))
    /\ UNCHANGED <<workers, started, files, appended, removed>>

\* record_download_archive(track) with the id of the track
WorkerAppend(p, id) ==
    /\ workers[p].pc = "running"
    /\ Len(ledger) < MaxLedger
    /\ LET rec == record_download_archive(ArchiveKwargs, ledger, archive_exists, id,
                                          CanLock(Locks, ArchivePath))
       IN  /\ ledger' = rec.lines
           /\ archive_exists' = rec.exists
    /\ appended' = IF CanLock(Locks, ArchivePath) THEN appended \cup {id} ELSE appended
    /\ SetLocks(release(acquire(Locks, p, ArchivePath), p, ArchivePath))
    /\ UNCHANGED <<workers, started, files, removed>>

\* download_playlist, lines 586-591, and sync, line 505: the lock is taken,
\* or the process ends (there is no archive, or the lock times out)
WorkerSyncLock(p, tracks) ==
    /\ workers[p].pc = "running"
    /\ IF ~archive_exists
       THEN WorkerEnds(p, Locks)
       ELSE IF CanLock(Locks, ArchivePath)
       THEN /\ workers' = [workers EXCEPT ![p].pc = "locked", ![p].tracks = tracks]
            /\ SetLocks(acquire(Locks, p, ArchivePath))
       ELSE WorkerEnds(p, acquire(Locks, p, ArchivePath))
    /\ UNCHANGED <<started, ledger, archive_exists, files, appended, removed>>

\* sync, lines 506-518: the archive is read; an archive that cannot be parsed
\* ends the process
WorkerSyncRead(p) ==
    /\ workers[p].pc = "locked"
    /\ LET old == read_archive(ledger)
       IN  IF old.ok
           THEN /\ workers' = [workers EXCEPT ![p].pc = "read", ![p].old = old.ids]
                /\ UNCHANGED lockVars
           ELSE WorkerEnds(p, Locks)
    /\ UNCHANGED <<started, ledger, archive_exists, files, appended, removed>>

\* sync, lines 520-555: the files of rem go and the archive is rewritten; the
\* lock is released; sync returns the tracks to download or ends the process
WorkerSyncRewrite(p) ==
    /\ workers[p].pc = "read"
    /\ LET old == workers[p].old
           add == sync_add(old, workers[p].tracks)
           gone == sync_rem(old, workers[p].tracks)
           Lr == release(Locks, p, ArchivePath)
       IN  /\ files' = {f \in files : f[1] \notin gone}
           /\ ledger' = IF gone # {} THEN sync_rewrite(old, gone) ELSE ledger
           /\ removed' = removed \cup gone
           /\ IF add = {}
              THEN WorkerEnds(p, Lr)
              ELSE /\ workers' = [workers EXCEPT ![p] = [NoWorker EXCEPT !.pc = "running"]]
                   /\ SetLocks(Lr)
    /\ UNCHANGED <<started, archive_exists, appended>>

\* the process returns from main()
WorkerExit(p) ==
    /\ workers[p].pc = "running"
    /\ WorkerEnds(p, Locks)
    /\ UNCHANGED <<started, ledger, archive_exists, files, appended, removed>>

\* C10: with two or more processes on one ledger no append is lost: once all
\* processes have finished, every ID that was appended and is not in a sync's
\* toRemove set is present in the ledger.
C10_NoAppendLost ==
    (started > 0 /\ \A p \in Procs : workers[p].pc = "none") =>
        \A id \in appended \ removed : py_str(id) \in Range(ledger)

-----------------------------------------------------------------------------
(***************************************************************************)
(* sync on its own: one invocation with --sync stands before sync with an  *)
(* archive that earlier invocations wrote and a playlist; the ids are      *)
(* 1..MaxSyncId.                                                           *)
(***************************************************************************)
MaxSyncId == 4
MaxKnown == 3

SyncIds == 1..MaxSyncId

\* the archives of up to MaxKnown lines, each written by record_download_archive
SyncLedgers ==
    UNION {[1..n -> {py_str(id) : id \in SyncIds}] : n \in 0..MaxKnown}

\* the playlists of up to MaxKnown tracks
SyncPlaylists ==
    {tracks \in UNION {[1..n -> SyncIds] : n \in 1..MaxKnown} :
        \A i, j \in DOMAIN tracks : tracks[i] = tracks[j] => i = j}

\* the working directory holds no track file, the files of the tracks with
\* an odd id, or one of every track
SyncFiles ==
    {{}, {get_filename(id, HlsExt) : id \in {i \in SyncIds : i % 2 = 1}},
     {get_filename(id, HlsExt) : id \in SyncIds}}

\* kwargs of `scdl --sync <file>`
SyncKwargs == [NoKwargs EXCEPT !.sync = TRUE, !.download_archive = TRUE]

SyncInit ==
    /\ SizeIdle /\ CopyIdle /\ ProgIdle /\ LedIdle /\ EncIdle /\ MetaIdle /\ FfIdle /\ HistIdle /\ RerunIdle /\ OrdIdle /\ NumIdle /\ SelIdle
    /\ runs = 0
    /\ kwargs = SyncKwargs
    /\ playlist \in SyncPlaylists
    /\ pc = "sync"
    /\ status = "running"
    /\ idx = 0
    /\ track = NoTrack
    /\ filename = <<>>
    /\ is_already_downloaded = FALSE
    /\ files \in SyncFiles
    /\ file_writes = 0
    /\ ledger \in SyncLedgers
    /\ archive_exists = TRUE
    /\ fileToKeep = <<>>
    /\ outcome = "none"
    /\ at_start = NoSnapshot
    /\ rem = {}
    /\ LET none == [lockFile |-> [path \in Paths |-> FALSE],
                    held |-> [p \in Procs |-> [path \in Paths |-> "no"]],
                    file_lock_dirs |-> [p \in Procs |-> {}]]
           L == release(acquire(none, Me, ConfigPath), Me, ConfigPath)
       IN  /\ lockFile = L.lockFile
           /\ held = L.held
           /\ file_lock_dirs = L.file_lock_dirs

\* the ids that stand in the archive, and the ids of the playlist
Known == {id \in SyncIds : py_str(id) \in Range(ledger)}
Current == Range(playlist)
ToAdd == Current \ Known

\* C11: sync computes toAdd = current minus known and toRemove = known minus
\* current, and the tracks returned for download are exactly the playlist
\* tracks whose ID is in toAdd (none: the process ends with "nothing to
\* download").
C11_SyncSetDifference ==
    [][(pc = "sync" /\ ledger # <<>> /\ (ToAdd # {} \/ Known \ Current # {})) =>
            LET Added(id) == id \in ToAdd
            IN  /\ rem' = Known \ Current
                /\ ToAdd # {} => (pc' = "next" /\ playlist' = SelectSeq(playlist, Added))
                /\ ToAdd = {} => (pc' = "idle" /\ status' = "exit0")]_vars

\* known = {1,2,3} and current = {2,3,4}: rem is {1}, track 4 is returned and
\* the archive holds 2 and 3
C11_Witness ==
    /\ pc = "next"
    /\ rem = {1}
    /\ playlist = <<4>>
    /\ Range(ledger) = {py_str(2), py_str(3)}

\* the ids of toRemove of which the directory holds no file
NotFound == {id \in Known \ Current : \A f \in files : f[1] # id}

\* C28: when toRemove is not empty, sync rewrites the archive, in the step
\* that takes the archive's lock, to exactly the ids of known minus toRemove.
\* An id of toRemove without a local file is dropped from the archive like
\* the others, and the files of the others are removed all the same.
C28_SyncRewritesKnownMinusRemoved ==
    [][(pc = "sync" /\ ledger # <<>> /\ Known \ Current # {}) =>
            /\ rem' = Known \ Current
            /\ Range(ledger') = {py_str(id) : id \in Known \ (Known \ Current)}
            /\ \A id \in NotFound : py_str(id) \notin Range(ledger')
            /\ files' = {f \in files : f[1] \notin (Known \ Current) \ NotFound}
            /\ pc' = "next" => lockFile'[ArchivePath]
            /\ held'[Me][ArchivePath] = "no"]_vars

\* ids 1 and 2 were removed from an archive of three in a directory that
\* held the files of 1 and 3: the file of 1 is gone, 2 had none and is
\* dropped as well, the file of 3 stays
C28_Witness ==
    /\ rem = {1, 2}
    /\ ledger = <<py_str(3)>>
    /\ files = {get_filename(3, HlsExt)}
    /\ pc = "next"
    /\ playlist = <<4>>

\* C12: sync with a ledger holding S and a playlist holding S, S not empty,
\* finds nothing to add or remove, signals "no changes", deletes no local
\* file and leaves the ledger unchanged.
C12_SyncSameSetNoChanges ==
    [][(pc = "sync" /\ ledger # <<>> /\ Known = Current) =>
            /\ status' = "exit0"
            /\ rem' = {}
            /\ files' = files
            /\ ledger' = ledger]_vars

\* sync has ended with "no changes" in a directory that holds track files
C12_Witness ==
    /\ status = "exit0"
    /\ rem = {}
    /\ files # {}
    /\ Len(ledger) > 1
    /\ \A id \in SyncIds : py_str(id) \in Range(ledger) => get_filename(id, HlsExt) \in files

-----------------------------------------------------------------------------
(***************************************************************************)
(* One call of re_encode_to_out: re_encode_to_buffer builds the buffer     *)
(* (by _copy_stream, or by _re_encode_ffmpeg with the feeding thread       *)
(* _write_streaming_response_to_pipe when the source is a response),       *)
(* _add_metadata_to_stream tags it, and the target file is written.        *)
(***************************************************************************)
\* a file of that name that an earlier invocation left (--overwrite)
OldFile == [data |-> <<"old">>, tagged |-> TRUE]

\* what ffmpeg makes of its input
transcode(data) == <<"ffmpeg">> \o data

\* a copy whose failure is not passed on
after_copy_swallowing(cpc) == "tag"

\* _copy_stream: the buffer is returned when the copy returned; the
\* SoundCloudException and the SystemExit of the copy pass through it
after_copy(cpc) ==
    CASE cpc = "returned" -> "tag"
      [] cpc = "raised" -> "raised"
      [] cpc = "exit1" -> "exit1"

EncInit ==
    /\ in_data \in {"response", "url"}
    /\ original_metadata \in BOOLEAN
    /\ container \in {"known", "unknown", "broken"}
    /\ encoded = <<>>
    /\ target \in {<<>>, <<OldFile>>}
    /\ enc_pc = "buffer"
    /\ stream \in Streams
    /\ unread = stream
    /\ sink = <<>>
    /\ received = 0
    /\ sink_closed = FALSE
    /\ verdict = "none"
    /\ IF in_data = "response"
       THEN /\ is_bytesio \in BOOLEAN
            /\ copy_pc = "check"
            /\ min_size_arg \in {<<>>, <<2>>}
            /\ max_size_arg \in {<<>>, <<2>>}
            /\ total_length \in 0..MaxStream
       ELSE /\ is_bytesio = FALSE
            /\ copy_pc = "idle"
            /\ min_size_arg = <<>>
            /\ max_size_arg = <<>>
            /\ total_length = Len(stream)

\* re_encode_to_buffer, lines 1356-1357: skip_re_encoding with a response
CopyStreamEnds ==
    /\ enc_pc = "buffer"
    /\ is_bytesio
    /\ copy_pc \in {"returned", "raised", "exit1"}
    /\ enc_pc' = after_copy(copy_pc)
    /\ encoded' = <<[data |-> sink, tagged |-> FALSE]>>
    /\ UNCHANGED <<in_data, original_metadata, container, target>>

\* _re_encode_ffmpeg: ffmpeg exits.  With status 0 it has read its input to
\* the end: the URL's stream, or what the feeding thread wrote before it
\* closed the pipe.  With another status SoundCloudException is raised.
FfmpegExits ==
    /\ enc_pc = "buffer"
    /\ ~is_bytesio
    /\ \E code \in {0, 1} :
        IF code # 0
        THEN enc_pc' = "raised" /\ encoded' = encoded
        ELSE /\ in_data = "url" \/ sink_closed
             /\ enc_pc' = "tag"
             /\ encoded' = <<[data |-> transcode(IF in_data = "url" THEN stream ELSE sink),
                              tagged |-> FALSE]>>
    /\ UNCHANGED <<in_data, original_metadata, container, target>>

\* _re_encode_ffmpeg: the feeding thread ended by SoundCloudException or by
\* SystemExit, which end the thread only; the pipe stays open, ffmpeg waits
\* for input and the loop over its stderr never ends.
FfmpegStarves ==
    /\ enc_pc = "buffer"
    /\ ~is_bytesio
    /\ copy_pc \in {"raised", "exit1"}
    /\ enc_pc' = "hung"
    /\ UNCHANGED <<in_data, original_metadata, container, encoded, target>>

\* re_encode_to_buffer, lines 1361-1365, and _add_metadata_to_stream: a
\* buffer of a known type is tagged, one of no known type is left as it is
\* with an error in the log, and mutagen raises on one it cannot parse
AddMetadata ==
    /\ enc_pc = "tag"
    /\ IF original_metadata \/ container = "unknown"
       THEN enc_pc' = "write" /\ encoded' = encoded
       ELSE IF container = "known"
       THEN enc_pc' = "write" /\ encoded' = <<[encoded[1] EXCEPT !.tagged = TRUE]>>
       ELSE enc_pc' = "raised" /\ encoded' = encoded
    /\ UNCHANGED <<in_data, original_metadata, container, target>>

\* re_encode_to_out, lines 1182-1186
WriteTarget ==
    /\ enc_pc = "write"
    /\ target' = encoded
    /\ enc_pc' = "written"
    /\ UNCHANGED <<in_data, original_metadata, container, encoded>>

\* the buffer holds the whole stream, copied or transcoded
BufferComplete ==
    /\ encoded # <<>>
    /\ encoded[1].data \in {stream, transcode(stream)}
    /\ Len(stream) = total_length

\* the tagging step is over: the buffer is tagged, or --original-metadata
\* keeps its tags, or its type has no handler
TaggingDone ==
    encoded[1].tagged \/ original_metadata \/ container = "unknown"

\* C15: the target file is written only when the complete encoded buffer
\* exists and the tagging step is over; when the size check, the copy, the
\* transcode or the tagging fails, the target file is neither created nor
\* changed.
C15_TargetWrittenAfterCompleteBuffer ==
    [][/\ target' # target =>
            (enc_pc = "write" /\ BufferComplete /\ TaggingDone /\ target' = encoded)
       /\ enc_pc' \in {"raised", "exit1", "hung"} => target' = target
       /\ enc_pc \in {"raised", "exit1", "hung"} => target' = target]_vars

\* a stream of several chunks was fed to ffmpeg, the output was tagged and
\* written over the old file
C15_Witness ==
    /\ enc_pc = "written"
    /\ in_data = "response"
    /\ ~is_bytesio
    /\ Len(stream) = MaxStream
    /\ target = <<[data |-> transcode(stream), tagged |-> TRUE]>>

-----------------------------------------------------------------------------
(***************************************************************************)
(* The artist of _add_metadata_to_stream (lines 1110-1119).  A string is   *)
(* the sequence of its characters; the five dashes are named, the spaces   *)
(* around them are characters of their own.                                *)
(***************************************************************************)
MaxTitle == 7

\* the dashes of the set literal {" - ", " − ", " – ", " — ", " ― "}
Dashes == {"-", "minus sign", "en dash", "em dash", "horizontal bar"}

\* the element of the set literal with the dash d
dash_string(d) == <<" ", d, " ">>

\* the characters of the titles looked at
TitleChars == {"a", " ", "-", "en dash"}

Titles == UNION {[1..n -> TitleChars] : n \in 0..MaxTitle}

\* the positions at which sep occurs in text
Occurrences(text, sep) ==
    {i \in 1..(Len(text) - Len(sep) + 1) : SubSeq(text, i, i + Len(sep) - 1) = sep}

\* sep in text
py_in(sep, text) == Occurrences(text, sep) # {}

\* text.rsplit(sep, maxsplit=1) of a text that holds sep
py_rsplit_once(text, sep) ==
    LET i == CHOOSE j \in Occurrences(text, sep) : \A k \in Occurrences(text, sep) : k <= j
    IN  <<SubSeq(text, 1, i - 1), SubSeq(text, i + Len(sep), Len(text))>>

\* text.split(sep, maxsplit=1) of a text that holds sep
py_split_once(text, sep) ==
    LET i == CHOOSE j \in Occurrences(text, sep) : \A k \in Occurrences(text, sep) : j <= k
    IN  <<SubSeq(text, 1, i - 1), SubSeq(text, i + Len(sep), Len(text))>>

RECURSIVE py_lstrip(_)
py_lstrip(text) ==
    IF text # <<>> /\ text[1] = " " THEN py_lstrip(Tail(text)) ELSE text

RECURSIVE py_rstrip(_)
py_rstrip(text) ==
    IF text # <<>> /\ text[Len(text)] = " "
    THEN py_rstrip(SubSeq(text, 1, Len(text) - 1))
    ELSE text

\* text.strip()
py_strip(text) == py_rstrip(py_lstrip(text))

MetaInit ==
    /\ title \in Titles
    /\ username = <<"u">>
    /\ extract_artist \in BOOLEAN
    /\ artist = <<>>
    /\ meta_pc = "artist"

\* lines 1110-1119.  The loop runs over a set: the order in which the dashes
\* come depends on the hashes of the strings, which differ from process to
\* process, so any dash of the title may be the first one found.
ExtractArtist ==
    /\ meta_pc = "artist"
    /\ LET found == {d \in Dashes : py_in(dash_string(d), title)}
       IN  IF extract_artist /\ found # {}
           THEN \E dash \in found :
                    LET artist_title == py_split_once(title, dash_string(dash))
                    IN  /\ artist' = py_strip(artist_title[1])
                        /\ title' = py_strip(artist_title[2])
           ELSE /\ artist' = username
                /\ title' = title
    /\ meta_pc' = "done"
    /\ UNCHANGED <<username, extract_artist>>

\* text is one of the separators: a dash between two spaces
IsSeparator(text) == \E d \in Dashes : text = <<" ", d, " ">>

\* the three characters of the title from position i on
At(i) == SubSeq(title, i, i + 2)

\* text without the spaces at its ends
Trimmed(text) ==
    LET inked == {i \in DOMAIN text : text[i] # " "}
    IN  IF inked = {} THEN <<>>
        ELSE SubSeq(text, CHOOSE i \in inked : \A j \in inked : i <= j,
                          CHOOSE i \in inked : \A j \in inked : j <= i)

\* the step splits the title at position i, the first place where the
\* separator found there stands
SplitsAt(i) ==
    /\ IsSeparator(At(i))
    /\ \A j \in 1..(i - 1) : At(j) # At(i)
    /\ artist' = Trimmed(SubSeq(title, 1, i - 1))
    /\ title' = Trimmed(SubSeq(title, i + 3, Len(title)))

\* C20: with artist extraction, a title that holds a separator is split once,
\* at the first place of that separator: what stands left of it, trimmed, is
\* the artist, and what stands right of it, trimmed, is the title, further
\* separators included; a title without separator stays as it is and the
\* username is the artist.
C20_ArtistExtractionSplitsOnce ==
    [][(meta_pc = "artist" /\ extract_artist) =>
            IF \E i \in 1..(Len(title) - 2) : IsSeparator(At(i))
            THEN \E i \in 1..(Len(title) - 2) : SplitsAt(i)
            ELSE title' = title /\ artist' = username]_vars

\* a title with more than one separator ("a - - a", "a en-dash - a") was
\* split once: the artist is "a" and the title "- a"
C20_Witness ==
    /\ meta_pc = "done"
    /\ extract_artist
    /\ artist = <<"a">>
    /\ title = <<"-", " ", "a">>

-----------------------------------------------------------------------------
(***************************************************************************)
(* One transcoded download: _re_encode_ffmpeg with its two threads and the *)
(* ffmpeg process, then the tagging and the write of re_encode_to_out, and *)
(* the end of the `with lock:` block of download_track.                    *)
(***************************************************************************)
\* the track of the transcode
FfTrack == 1

\* what ffmpeg has put out when it fails
partial_output == <<"ffmpeg">>

\* Thread.join returns at once
join_at_once(thread) == TRUE

\* `if thread: thread.join()` returns for no thread and for one that ended
join_returns(thread) == thread \in {"none", "finished"}

\* the feeding thread, by the position of _write_streaming_response_to_pipe
stdin_thread_state ==
    IF stdin_thread = "started" /\ copy_pc \in {"returned", "raised", "exit1"}
    THEN "finished"
    ELSE stdin_thread

\* every exit status taken for success
ffmpeg_failed_never(code) == FALSE

\*   if pipe.returncode != 0: raise SoundCloudException(...)
ffmpeg_failed(code) == code # 0

\* lines 1244-1281 and download_track, line 874: the per-track lock is held,
\* ffmpeg runs, the threads are created and none is started
FfInit ==
    /\ in_data \in {"response", "url"}
    /\ streaming_supported \in BOOLEAN
    /\ stdout_thread = (IF streaming_supported THEN "created" ELSE "none")
    /\ stdin_thread = (IF in_data = "response" THEN "created" ELSE "none")
    /\ engine = "running"
    /\ returncode = <<>>
    /\ engine_out = <<>>
    /\ stdout = <<>>
    /\ temp_file = <<>>
    /\ ff_error = "none"
    /\ ff_message = <<>>
    /\ ff_pc = "start_stdout"
    /\ ProgInit
    /\ track_duration_ms = 1000
    /\ stream \in Streams
    /\ unread = stream
    /\ sink = <<>>
    /\ received = 0
    /\ is_bytesio = FALSE
    /\ sink_closed = FALSE
    /\ verdict = "none"
    /\ min_size_arg = <<>>
    /\ IF in_data = "response"
       THEN /\ copy_pc = "check"
            /\ max_size_arg \in {<<>>, <<2>>}
            /\ total_length \in {Len(stream), MaxStream}
       ELSE /\ copy_pc = "idle"
            /\ max_size_arg = <<>>
            /\ total_length = Len(stream)
    /\ original_metadata = FALSE
    /\ container = "known"
    /\ encoded = <<>>
    /\ target = <<>>
    /\ enc_pc = "buffer"
    /\ LET L == acquire([lockFile |-> [path \in Paths |-> FALSE],
                         held |-> [p \in Procs |-> [path \in Paths |-> "no"]],
                         file_lock_dirs |-> [p \in Procs |-> {}]],
                        Me, TrackPath(FfTrack))
       IN  /\ lockFile = L.lockFile
           /\ held = L.held
           /\ file_lock_dirs = L.file_lock_dirs

\* lines 1283-1285
StartStdoutThread ==
    /\ ff_pc = "start_stdout"
    /\ stdout_thread' = (IF stdout_thread = "created" THEN "started" ELSE stdout_thread)
    /\ ff_pc' = "start_stdin"
    /\ UNCHANGED <<streaming_supported, stdin_thread, engine, returncode, engine_out,
                   stdout, temp_file, ff_error, ff_message>>

\* lines 1286-1287
StartStdinThread ==
    /\ ff_pc = "start_stdin"
    /\ stdin_thread' = (IF stdin_thread = "created" THEN "started" ELSE stdin_thread)
    /\ ff_pc' = "progress"
    /\ UNCHANGED <<streaming_supported, stdout_thread, engine, returncode, engine_out,
                   stdout, temp_file, ff_error, ff_message>>

\* the feeding thread: _write_streaming_response_to_pipe on pipe.stdin
FeedSizeCheck == stdin_thread = "started" /\ CopySizeCheck

FeedChunk == stdin_thread = "started" /\ engine = "running" /\ CopyChunk

FeedEnd == stdin_thread = "started" /\ CopyEnd

\* pipe.write after ffmpeg has gone: BrokenPipeError ends the thread
FeedBrokenPipe ==
    /\ stdin_thread = "started"
    /\ engine = "exited"
    /\ copy_pc = "loop"
    /\ unread # <<>>
    /\ copy_pc' = "raised"
    /\ UNCHANGED <<stream, unread, sink, received, is_bytesio, sink_closed, sizeVars>>

\* read_stdout, lines 1261-1264: pipe.stdout is read to its end, which comes
\* when ffmpeg exits
DrainEnds ==
    /\ stdout_thread = "started"
    /\ engine = "exited"
    /\ stdout' = engine_out
    /\ stdout_thread' = "finished"
    /\ UNCHANGED <<streaming_supported, stdin_thread, engine, returncode, engine_out,
                   temp_file, ff_error, ff_message, ff_pc>>

\* ffmpeg has read its input to the end (the URL's stream, or what was
\* written to its stdin before that was closed), has written the output to
\* out_file_name and exits with status 0
EngineExits ==
    /\ engine = "running"
    /\ in_data = "url" \/ sink_closed
    /\ LET data == transcode(IF in_data = "url" THEN stream ELSE sink)
       IN  /\ engine_out' = (IF streaming_supported THEN data ELSE <<>>)
           /\ temp_file' = (IF streaming_supported THEN <<>> ELSE <<data>>)
    /\ engine' = "exited"
    /\ returncode' = <<0>>
    /\ UNCHANGED <<streaming_supported, stdout_thread, stdin_thread, stdout, ff_error,
                   ff_message, ff_pc>>

\* ffmpeg gives up with another status, at any time
EngineFails ==
    /\ engine = "running"
    /\ engine_out' = (IF streaming_supported THEN partial_output ELSE <<>>)
    /\ temp_file' = (IF streaming_supported THEN <<>> ELSE <<partial_output>>)
    /\ engine' = "exited"
    /\ returncode' = <<1>>
    /\ UNCHANGED <<streaming_supported, stdout_thread, stdin_thread, stdout, ff_error,
                   ff_message, ff_pc>>

\* lines 1297-1304: one line of stderr, kept when it is no progress line
\* (what an out_time_ms line does to the progress bar is left to SpecProgress)
ProgressLine ==
    /\ ff_pc = "progress"
    /\ ReadDiagnosticLine \/ ReadOtherProgressLine

\* line 1297: readline returns '' once ffmpeg has exited, the loop ends
ProgressLoopEnds ==
    /\ ff_pc = "progress"
    /\ engine = "exited"
    /\ StderrClosed
    /\ ff_pc' = "join_stdout"
    /\ UNCHANGED <<streaming_supported, stdout_thread, stdin_thread, engine, returncode,
                   engine_out, stdout, temp_file, ff_error, ff_message>>

\* lines 1317-1318
JoinStdoutThread ==
    /\ ff_pc = "join_stdout"
    /\ join_returns(stdout_thread)
    /\ ff_pc' = "join_stdin"
    /\ UNCHANGED <<streaming_supported, stdout_thread, stdin_thread, engine, returncode,
                   engine_out, stdout, temp_file, ff_error, ff_message>>

\* lines 1319-1320
JoinStdinThread ==
    /\ ff_pc = "join_stdin"
    /\ join_returns(stdin_thread_state)
    /\ ff_pc' = "wait"
    /\ UNCHANGED <<streaming_supported, stdout_thread, stdin_thread, engine, returncode,
                   engine_out, stdout, temp_file, ff_error, ff_message>>

\* lines 1323-1325 and 1333-1334: pipe.wait() returns when ffmpeg has exited
WaitForExit ==
    /\ ff_pc = "wait"
    /\ engine = "exited"
    /\ IF ffmpeg_failed(returncode[1])
       THEN /\ ff_error' = "SoundCloudException"
            /\ ff_message' = errors_output
            /\ ff_pc' = "raised"
            /\ enc_pc' = "raised"
            /\ encoded' = encoded
       ELSE IF ~streaming_supported
       THEN /\ ff_pc' = "readback"
            /\ UNCHANGED <<ff_error, ff_message, enc_pc, encoded>>
       ELSE /\ ff_pc' = "returned"
            /\ enc_pc' = "tag"
            /\ encoded' = <<[data |-> stdout, tagged |-> FALSE]>>
            /\ UNCHANGED <<ff_error, ff_message>>
    /\ UNCHANGED <<streaming_supported, stdout_thread, stdin_thread, engine, returncode,
                   engine_out, stdout, temp_file, in_data, original_metadata, container,
                   target>>

\* lines 1328-1330
ReadTempFile ==
    /\ ff_pc = "readback"
    /\ stdout' = stdout \o temp_file[1]
    /\ ff_pc' = "remove"
    /\ UNCHANGED <<streaming_supported, stdout_thread, stdin_thread, engine, returncode,
                   engine_out, temp_file, ff_error, ff_message, encVars>>

\* lines 1331-1334: os.remove, which raises OSError when the file cannot be
\* removed, and the return
RemoveTempFile ==
    /\ ff_pc = "remove"
    /\ \E removed_ok \in BOOLEAN :
        IF removed_ok
        THEN /\ temp_file' = <<>>
             /\ ff_pc' = "returned"
             /\ enc_pc' = "tag"
             /\ encoded' = <<[data |-> stdout, tagged |-> FALSE]>>
             /\ UNCHANGED <<ff_error, ff_message>>
        ELSE /\ ff_error' = "OSError"
             /\ ff_pc' = "raised"
             /\ enc_pc' = "raised"
             /\ UNCHANGED <<temp_file, ff_message, encoded>>
    /\ UNCHANGED <<streaming_supported, stdout_thread, stdin_thread, engine, returncode,
                   engine_out, stdout, in_data, original_metadata, container, target>>

\* download_track, lines 881-886: the `with lock:` block is left, and after a
\* download that returned the id goes to the archive
LeaveTrackLock ==
    /\ enc_pc \in {"written", "raised"}
    /\ held[Me][TrackPath(FfTrack)] # "no"
    /\ LET freed == release(Locks, Me, TrackPath(FfTrack))
           rec == record_download_archive(ArchiveKwargs, ledger, archive_exists,
                                          FfTrack, CanLock(freed, ArchivePath))
       IN  IF enc_pc = "written"
           THEN /\ SetLocks(release(acquire(freed, Me, ArchivePath), Me, ArchivePath))
                /\ ledger' = rec.lines
                /\ archive_exists' = rec.exists
           ELSE /\ SetLocks(freed)
                /\ UNCHANGED <<ledger, archive_exists>>
    /\ UNCHANGED <<runs, kwargs, playlist, idx, track, pc, status, filename,
                   is_already_downloaded, files, file_writes, fileToKeep, outcome,
                   at_start, rem>>

\* the call of _re_encode_ffmpeg is over and the `with lock:` block is left
TranscodeOver ==
    /\ ff_pc \in {"returned", "raised"}
    /\ held[Me][TrackPath(FfTrack)] = "no"

\* C21: every transcode of a live network stream eventually returns a buffer
\* or raises, and the per-track lock held around it is eventually released,
\* also when the feeding thread fails its size check or finds the stream
\* truncated (ffmpeg exits once its input is closed).
C21_LiveTranscodeEnds ==
    (in_data = "response" /\ ff_pc = "start_stdout") ~> TranscodeOver

\* a transcode whose feeding thread returned, or that reads a URL, ends
FedTranscodeEnds ==
    (in_data = "url" \/ copy_pc = "returned") ~> TranscodeOver

\* the feeding thread has ended by the size check or by the truncated
\* stream, and the main thread still waits in the progress loop with the
\* per-track lock held
C21_Starved ==
    /\ copy_pc \in {"raised", "exit1"}
    /\ engine = "running"
    /\ ~sink_closed
    /\ ff_pc = "progress"
    /\ held[Me][TrackPath(FfTrack)] = "linked"

\* C22: ffmpeg's exit status is awaited only after the progress loop has
\* seen stderr close and after every started thread has been joined; both
\* threads are started before the progress loop reads its first line.
C22_WaitAfterLoopAndJoins ==
    /\ ff_pc \in {"wait", "readback", "remove", "returned", "raised"}
            => /\ prog_pc = "closed"
               /\ stdout_thread \in {"none", "finished"}
               /\ stdin_thread_state \in {"none", "finished"}
    /\ ff_pc \notin {"start_stdout", "start_stdin"} \/ lines_read > 0 \/ prog_pc = "closed"
            => /\ stdout_thread # "created"
               /\ stdin_thread # "created"
               /\ streaming_supported => stdout_thread \in {"started", "finished"}
               /\ in_data = "response" => stdin_thread = "started"

\* the main thread is about to wait for ffmpeg after a loop that read lines
\* and after both threads, which ran side by side, have ended
C22_Witness ==
    /\ ff_pc = "wait"
    /\ lines_read > 0
    /\ stdout_thread = "finished"
    /\ stdin_thread = "started"
    /\ copy_pc = "returned"
    /\ Len(sink) = MaxStream

\* the feeding thread and the draining thread run while the loop reads
C22_Concurrent ==
    /\ ff_pc = "progress"
    /\ stdout_thread = "started"
    /\ stdin_thread = "started"
    /\ copy_pc = "loop"
    /\ sink # <<>>
    /\ unread # <<>>

\* C23: when ffmpeg exits with a non-zero status the transcode fails with
\* an error that carries the non-progress lines read from stderr; what was
\* read from stdout is dropped: no buffer is returned, no target file is
\* written and no id is appended to the archive.
C23_NonZeroExitFailsCleanly ==
    returncode # <<>> /\ returncode[1] # 0
        => /\ ff_pc \notin {"returned", "readback", "remove"}
           /\ enc_pc \in {"buffer", "raised"}
           /\ encoded = <<>>
           /\ target = <<>>
           /\ ledger = <<>>
           /\ ~archive_exists
           /\ ff_pc = "raised" => /\ ff_error = "SoundCloudException"
                                  /\ ff_message = errors_output
                                  /\ enc_pc = "raised"

\* ffmpeg failed after two diagnostic lines and some output that the
\* draining thread read; the error was raised and the lock released
C23_Witness ==
    /\ returncode = <<1>>
    /\ ff_pc = "raised"
    /\ ff_message = <<"Invalid data found", "Invalid data found">>
    /\ stdout = partial_output
    /\ held[Me][TrackPath(FfTrack)] = "no"

\* C24: for a codec that cannot be streamed, after ffmpeg exits with status
\* 0 the temporary file is read into the buffer and removed, and the
\* transcode returns the buffer also when the removal fails.
C24_TempFileReadAndCallReturns ==
    ~streaming_supported /\ returncode = <<0>> /\ ff_pc \in {"returned", "raised"}
        => /\ ff_pc = "returned"
           /\ encoded # <<>>
           /\ encoded[1].data = transcode(IF in_data = "url" THEN stream ELSE sink)

\* the temporary file was read and could not be removed: the call ended by
\* OSError with the whole output in its buffer
C24_RemovalFailed ==
    /\ ~streaming_supported
    /\ returncode = <<0>>
    /\ ff_pc = "raised"
    /\ ff_error = "OSError"
    /\ stdout = transcode(stream)
    /\ Len(stream) = MaxStream
    /\ temp_file # <<>>

\* as long as the removal succeeds the buffer holds the file and the file is gone
TempFileReadWhenRemoved ==
    ~streaming_supported /\ ff_pc = "returned"
        => /\ temp_file = <<>>
           /\ encoded[1].data = transcode(IF in_data = "url" THEN stream ELSE sink)

-----------------------------------------------------------------------------
(***************************************************************************)
(* Two invocations with --sync, one after the other.                       *)
(***************************************************************************)
\* the archives a --sync invocation finds: up to MaxTracks lines of track ids
ResyncLedgers ==
    UNION {[1..n -> {py_str(id) : id \in TrackIds}] : n \in 1..MaxTracks}

\* sync has compared the playlist with the archive (line 519): the playlist
\* is kept, and no download has failed since
NoteSync ==
    /\ synced' = (IF status' = "exit1" THEN <<>> ELSE playlist)
    /\ all_downloaded' = (status' # "exit1")

\* a new invocation: what the last sync compared counts only for a --sync
\* invocation that follows it directly
NoteStart ==
    /\ synced' = (IF kwargs'.sync THEN synced ELSE <<>>)
    /\ all_downloaded' = all_downloaded

\* any other step: a call of download_track that ends otherwise than by
\* "Downloaded." is remembered
NoteCall ==
    /\ synced' = synced
    /\ all_downloaded' = (all_downloaded /\ outcome' \in {"none", "downloaded"})

\* the ids on the lines of the archive
LedgerIds == {id \in TrackIds : py_str(id) \in Range(ledger)}

\* C29: after a --sync invocation in which every track of toAdd was
\* downloaded, the ids of the archive are the ids of the playlist, and a
\* --sync invocation that follows on the same playlist finds no changes: it exits
\* with status 0, removes nothing and leaves archive and files as they are.
C29_ResyncFindsNoChanges ==
    [][(pc = "sync" /\ all_downloaded /\ playlist = synced) =>
            /\ LedgerIds = Range(synced)
            /\ Range(ledger) = {py_str(id) : id \in Range(synced)}
            /\ status' = "exit0"
            /\ pc' = "idle"
            /\ rem' = {}
            /\ ledger' = ledger
            /\ files' = files]_vars

\* the first invocation found track 12 in the archive and track 1 new,
\* downloaded it, and the second invocation on the same two tracks ended
\* with "no changes"
C29_Witness ==
    /\ runs > 1
    /\ pc = "idle"
    /\ status = "exit0"
    /\ all_downloaded
    /\ synced = <<12, 1>>
    /\ ledger = <<py_str(12), py_str(1)>>
    /\ files # {}

-----------------------------------------------------------------------------
(***************************************************************************)
(* The choice of a transcoding in download_hls.  A preset is the sequence  *)
(* of its characters, so that str.startswith is a comparison of prefixes.  *)
(***************************************************************************)
MaxTranscodings == 3

aac == <<"a", "a", "c">>
opus == <<"o", "p", "u", "s">>
mp3 == <<"m", "p", "3">>

\* the presets a track may offer: aac_1, opus_0, mp3_0, mp3_1 and abr
Presets ==
    {aac \o <<"_", "1">>, opus \o <<"_", "0">>, mp3 \o <<"_", "0">>, mp3 \o <<"_", "1">>,
     <<"a", "b", "r">>}

Protocols == {"hls", "progressive"}

Transcoding == [preset : Presets, protocol : Protocols]

\* s.startswith(prefix)
startswith(s, prefix) ==
    Len(prefix) <= Len(s) /\ SubSeq(s, 1, Len(prefix)) = prefix

\* valid_presets as download_hls builds it from --onlymp3 and --opus
valid_presets(kw) ==
    LET only == <<[name |-> mp3, ext |-> ".mp3"]>>
        with_opus == IF kw.opus THEN <<[name |-> opus, ext |-> ".opus"]>> \o only ELSE only
    IN  IF kw.onlymp3 THEN only ELSE <<[name |-> aac, ext |-> ".m4a"]>> \o with_opus

\* a loop over the presets that is never left early: the last preset that
\* matches wins
RECURSIVE select_last_preset(_, _)
select_last_preset(presets, hls) ==
    IF presets = <<>>
    THEN [transcoding |-> <<>>, preset_name |-> <<>>, preset_ext |-> <<>>]
    ELSE LET preset == Head(presets)
             matching == SelectSeq(hls, LAMBDA t : startswith(t.preset, preset.name))
             later == select_last_preset(Tail(presets), hls)
         IN  IF later.transcoding # <<>> \/ matching = <<>>
             THEN [later EXCEPT !.preset_name = IF Tail(presets) = <<>> THEN preset.name ELSE @,
                                !.preset_ext = IF Tail(presets) = <<>> THEN preset.ext ELSE @]
             ELSE [transcoding |-> <<matching[Len(matching)]>>,
                   preset_name |-> preset.name, preset_ext |-> preset.ext]

\* The loops of download_hls over valid_presets and the HLS transcodings:
\* within one preset the last transcoding whose preset starts with the name
\* is kept, and the first preset that has one ends the loop.  When the
\* presets run out, transcoding is still None and the loop variables are
\* those of the last preset.
RECURSIVE select_transcoding(_, _)
select_transcoding(presets, hls) ==
    LET preset == Head(presets)
        matching == SelectSeq(hls, LAMBDA t : startswith(t.preset, preset.name))
    IN  IF matching # <<>>
        THEN [transcoding |-> <<matching[Len(matching)]>>,
              preset_name |-> preset.name, preset_ext |-> preset.ext]
        ELSE IF Tail(presets) = <<>>
        THEN [transcoding |-> <<>>, preset_name |-> preset.name, preset_ext |-> preset.ext]
        ELSE select_transcoding(Tail(presets), hls)

SelInit ==
    /\ transcodings \in UNION {[1..n -> Transcoding] : n \in 0..MaxTranscodings}
    /\ hls_kwargs \in [onlymp3 : BOOLEAN, opus : BOOLEAN]
    /\ transcoding = <<>>
    /\ preset_name = <<>>
    /\ preset_ext = <<>>
    /\ hls_pc = "select"

\* download_hls up to the choice: no transcodings at all raises, otherwise
\* the HLS transcodings are searched preset by preset, and the for-else
\* raises when no preset has one
SelectTranscoding ==
    /\ hls_pc = "select"
    /\ IF transcodings = <<>>
       THEN /\ hls_pc' = "raised"
            /\ UNCHANGED <<transcoding, preset_name, preset_ext>>
       ELSE LET hls == SelectSeq(transcodings, LAMBDA t : t.protocol = "hls")
                chosen == select_transcoding(valid_presets(hls_kwargs), hls)
            IN  /\ transcoding' = chosen.transcoding
                /\ preset_name' = chosen.preset_name
                /\ preset_ext' = chosen.preset_ext
                /\ hls_pc' = IF chosen.transcoding = <<>> THEN "raised" ELSE "selected"
    /\ UNCHANGED <<transcodings, hls_kwargs>>

\* already_downloaded found the file: download_hls returns (filename, True)
ReturnAlreadyDownloaded ==
    /\ hls_pc = "selected"
    /\ hls_pc' = "returned"
    /\ UNCHANGED <<transcodings, hls_kwargs, transcoding, preset_name, preset_ext>>

\* get_transcoding_m3u8 and re_encode_to_out are called for the transcoding
StartTransfer ==
    /\ hls_pc = "selected"
    /\ hls_pc' = "transfer"
    /\ UNCHANGED <<transcodings, hls_kwargs, transcoding, preset_name, preset_ext>>

\* an HLS transcoding of the named format is on offer
HasVariant(name) ==
    \E i \in DOMAIN transcodings :
        transcodings[i].protocol = "hls" /\ startswith(transcodings[i].preset, name)

\* the first format in the order of preference that has an HLS variant:
\* aac, then opus when --opus is given, then mp3; mp3 alone with --onlymp3
PreferredFormat ==
    IF ~hls_kwargs.onlymp3 /\ HasVariant(aac) THEN <<aac>>
    ELSE IF ~hls_kwargs.onlymp3 /\ hls_kwargs.opus /\ HasVariant(opus) THEN <<opus>>
    ELSE IF HasVariant(mp3) THEN <<mp3>>
    ELSE <<>>

\* C31: once download_hls has made its choice, the transcoding chosen is an
\* HLS variant of the first format in the order of preference that has one
\* (so aac wins over opus and mp3, and opus over mp3), with the extension of
\* that format; when no format has an HLS variant the call has raised, and
\* a transfer is only ever started for a chosen transcoding.
C31_FirstPreferredFormatWins ==
    /\ hls_pc \in {"selected", "returned", "transfer"}
        => /\ PreferredFormat # <<>>
           /\ transcoding # <<>>
           /\ transcoding[1].protocol = "hls"
           /\ startswith(transcoding[1].preset, PreferredFormat[1])
           /\ preset_name = PreferredFormat[1]
           /\ preset_ext = (CASE preset_name = aac -> ".m4a"
                              [] preset_name = opus -> ".opus"
                              [] preset_name = mp3 -> ".mp3")
           /\ \E i \in DOMAIN transcodings : transcodings[i] = transcoding[1]
    /\ hls_pc = "raised" => PreferredFormat = <<>> /\ transcoding = <<>>
    /\ hls_pc = "transfer" => transcoding # <<>>

\* opus was asked for and the track offers mp3, opus and aac over HLS, in
\* that order: the transfer was started for the aac variant
C31_Witness ==
    /\ hls_pc = "transfer"
    /\ hls_kwargs.opus /\ ~hls_kwargs.onlymp3
    /\ Len(transcodings) = 3
    /\ HasVariant(mp3) /\ HasVariant(opus) /\ HasVariant(aac)
    /\ startswith(transcodings[1].preset, mp3)
    /\ startswith(transcoding[1].preset, aac)

-----------------------------------------------------------------------------
(***************************************************************************)
(* The track numbers of download_playlist: the playlist as fetched, what   *)
(* -n and --sync make of playlist.tracks, and the loop that numbers the    *)
(* tracks.  A number is the sequence of its decimal digits, as py_str      *)
(* gives it.                                                               *)
(***************************************************************************)
MaxNumId == 3
LongSize == 10
MaxN == 2
MaxOffset == 1

NumIds == 1..MaxNumId

\* the playlists: every order of distinct ids, and one long playlist whose
\* size has two digits
NumPlaylists ==
    {p \in UNION {[1..n -> NumIds] : n \in 0..MaxNumId} :
        \A i, j \in DOMAIN p : i # j => p[i] # p[j]}
    \cup {[i \in 1..LongSize |-> i]}

\* list.sort(key=lambda track: track.id, reverse=True), for distinct ids
RECURSIVE sort_by_id_reverse(_)
sort_by_id_reverse(ids) ==
    IF ids = <<>> THEN <<>>
    ELSE LET top == CHOOSE i \in DOMAIN ids : \A j \in DOMAIN ids : ids[j] <= ids[i]
         IN  <<ids[top]>> \o sort_by_id_reverse(SelectSeq(ids, LAMBDA id : id # ids[top]))

\* str.zfill of a number without a sign
RECURSIVE zfill(_, _)
zfill(s, width) == IF Len(s) >= width THEN s ELSE zfill(<<0>> \o s, width)

\* str(counter).zfill(tracknumber_digits)
track_number(n, width) == zfill(py_str(n), width)

NumInit ==
    /\ fetched_tracks \in NumPlaylists
    /\ playlist_tracks = fetched_tracks
    /\ n_arg \in {<<>>} \cup {<<n>> : n \in 1..MaxN}
    /\ sync_old \in {<<>>} \cup {<<old>> : old \in SUBSET NumIds}
    /\ playlist_offset \in 0..MaxOffset
    /\ tracknumber_digits = 0
    /\ counter = 0
    /\ tracknumber = <<>>
    /\ num_pc = "prepare"

\* download_playlist before its loop: -n sorts by id, newest first, keeps the
\* first n tracks and sets the offset to 0; --sync replaces playlist.tracks by
\* the tracks sync returns, those whose id is not in the archive, in playlist
\* order, and sync exits when there is none; then the digits are counted
PreparePlaylist ==
    /\ num_pc = "prepare"
    /\ LET sorted == sort_by_id_reverse(playlist_tracks)
           after_n == IF n_arg # <<>>
                      THEN SubSeq(sorted, 1, Min(n_arg[1], Len(sorted)))
                      ELSE playlist_tracks
           add == IF sync_old # <<>> THEN Range(after_n) \ sync_old[1] ELSE {}
           after_sync == IF sync_old # <<>>
                         THEN SelectSeq(after_n, LAMBDA id : id \in add)
                         ELSE after_n
       IN  /\ playlist_offset' = IF n_arg # <<>> THEN 0 ELSE playlist_offset
           /\ IF sync_old # <<>> /\ add = {}
              THEN /\ num_pc' = "exit"
                   /\ playlist_tracks' = after_n
                   /\ UNCHANGED tracknumber_digits
              ELSE /\ num_pc' = "loop"
                   /\ playlist_tracks' = after_sync
                   /\ tracknumber_digits' = Len(py_str(Len(after_sync)))
    /\ UNCHANGED <<fetched_tracks, n_arg, sync_old, counter, tracknumber>>

\* one turn of the loop over islice(enumerate(playlist.tracks, 1), offset,
\* None): the next counter, and the track number made of it
NumberTrack ==
    /\ num_pc = "loop"
    /\ LET next == IF counter = 0 THEN playlist_offset + 1 ELSE counter + 1
       IN  /\ next <= Len(playlist_tracks)
           /\ counter' = next
           /\ tracknumber' = track_number(next, tracknumber_digits)
    /\ UNCHANGED <<fetched_tracks, playlist_tracks, n_arg, sync_old, playlist_offset,
                   tracknumber_digits, num_pc>>

\* the loop has no track left
NumberingEnds ==
    /\ num_pc = "loop"
    /\ (IF counter = 0 THEN playlist_offset + 1 ELSE counter + 1) > Len(playlist_tracks)
    /\ num_pc' = "done"
    /\ UNCHANGED <<fetched_tracks, playlist_tracks, n_arg, sync_old, playlist_offset,
                   tracknumber_digits, counter, tracknumber>>

\* the 1-based position of the track being numbered in the playlist as it
\* was fetched
PlaylistPosition ==
    CHOOSE i \in DOMAIN fetched_tracks : fetched_tracks[i] = playlist_tracks[counter]

\* C32: in every playlist download, with --sync and with -n as well, the
\* track number given to a track is its 1-based position within the
\* playlist, zero-padded to the digit width of the playlist's size.
C32_TrackNumberIsPlaylistPosition ==
    num_pc \in {"loop", "done"} /\ counter > 0
        => tracknumber = zfill(py_str(PlaylistPosition), Len(py_str(Len(fetched_tracks))))

\* without -n and --sync the number is the position in the playlist, padded
\* to the width of its size
PlainRunNumbersByPosition ==
    num_pc \in {"loop", "done"} /\ counter > 0 /\ n_arg = <<>> /\ sync_old = <<>>
        => tracknumber = zfill(py_str(PlaylistPosition), Len(py_str(Len(fetched_tracks))))

\* what the number is in every run: the position in the list that -n and
\* --sync left, padded to the width of that list's size
NumbersByPositionInWhatIsLeft ==
    num_pc \in {"loop", "done"} /\ counter > 0
        => tracknumber = zfill(py_str(counter), Len(py_str(Len(playlist_tracks))))

\* --sync on the long playlist with its first track in the archive: the
\* second track of the playlist is numbered 1, in one digit
C32_SyncRenumbers ==
    /\ num_pc = "loop" /\ counter = 1
    /\ Len(fetched_tracks) = LongSize
    /\ n_arg = <<>> /\ sync_old = <<{1}>>
    /\ playlist_tracks[counter] = fetched_tracks[2]
    /\ tracknumber = <<1>>

-----------------------------------------------------------------------------
(***************************************************************************)
(* Concurrent invocations in one directory, one lock operation per step:   *)
(* the archive lock of sync, the per-track lock of download_track, the     *)
(* archive lock of in_download_archive inside it and the archive lock of   *)
(* record_download_archive after it.  A process stands at "sync", "track", *)
(* "check" or "record" before the acquisition of that name and at          *)
(* "in_sync", "in_track", "in_check" or "in_record" inside the block.      *)
(***************************************************************************)

\* the timeout of get_filelock by default, in seconds
DefaultLockTimeout == 10

\* the timeout download_track passes for the per-track lock
TrackLockTimeout == 0

Invocation(p) == invocations[p]

\* the lock a process is about to acquire, <<>> when it is not acquiring
AcquiringPath(p) ==
    CASE Invocation(p).pc = "track" -> <<TrackPath(Invocation(p).id)>>
      [] Invocation(p).pc \in {"sync", "check", "record"} -> <<ArchivePath>>
      [] OTHER -> <<>>

\* the timeout of that acquisition
lock_timeout(p) ==
    IF Invocation(p).pc = "track" THEN TrackLockTimeout ELSE DefaultLockTimeout

\* FileLock.acquire polls until the timeout has run out: with a timeout above
\* zero the process waits as long as the flock is taken
WaitsForLock(p) ==
    /\ AcquiringPath(p) # <<>>
    /\ lock_timeout(p) > 0
    /\ ~CanLock(Locks, AcquiringPath(p)[1])

SetPc(p, to) == invocations' = [invocations EXCEPT ![p].pc = to]

\* the process ends: its `with` blocks unwind, clean_up_locks runs at exit
InvocationEnds(p) ==
    /\ invocations' = [invocations EXCEPT ![p] = NoInvocation]
    /\ ProcessExit(p)

OrdInit == LockIdle /\ OrdIdle

\* scdl is started on a playlist; --sync sets the download archive as well
StartProcess(p) ==
    /\ Invocation(p).pc = "none"
    /\ \E sync \in BOOLEAN, archive \in BOOLEAN, id \in TrackIds :
        /\ sync => archive
        /\ invocations' = [invocations EXCEPT ![p] =
                [pc |-> IF sync THEN "sync" ELSE "track", sync |-> sync,
                 download_archive |-> archive, id |-> id]]
    /\ UNCHANGED lockVars

\* sync: `with get_filelock(archive)` is entered
SyncLock(p) ==
    /\ Invocation(p).pc = "sync"
    /\ CanLock(Locks, ArchivePath)
    /\ SetLocks(acquire(Locks, p, ArchivePath))
    /\ SetPc(p, "in_sync")

\* sync: the archive lock was not free for the whole timeout, filelock.Timeout
\* leaves sync and main uncaught
SyncLockTimeout(p) ==
    /\ Invocation(p).pc = "sync"
    /\ ~CanLock(Locks, ArchivePath)
    /\ \E rm \in CleanupChoices(acquire(Locks, p, ArchivePath), p) :
            SetLocks(clean_up_locks(acquire(Locks, p, ArchivePath), p, rm))
    /\ invocations' = [invocations EXCEPT ![p] = NoInvocation]

\* sync returns the tracks to add and its `with` block is left
SyncReturns(p) ==
    /\ Invocation(p).pc = "in_sync"
    /\ SetLocks(release(Locks, p, ArchivePath))
    /\ SetPc(p, "track")

\* download_track: `with lock:` is tried once; a lock that is taken raises
\* filelock.Timeout at once and the track is skipped
TrackLock(p) ==
    /\ Invocation(p).pc = "track"
    /\ SetLocks(acquire(Locks, p, TrackPath(Invocation(p).id)))
    /\ SetPc(p, IF CanLock(Locks, TrackPath(Invocation(p).id)) THEN "in_track" ELSE "next")

\* inside the track lock already_downloaded is reached; with an archive it
\* calls in_download_archive
ReachArchiveCheck(p) ==
    /\ Invocation(p).pc = "in_track"
    /\ SetPc(p, IF Invocation(p).download_archive THEN "check" ELSE "leave")
    /\ UNCHANGED lockVars

\* in_download_archive: `with get_filelock(archive_filename)` is entered
CheckLock(p) ==
    /\ Invocation(p).pc = "check"
    /\ CanLock(Locks, ArchivePath)
    /\ SetLocks(acquire(Locks, p, ArchivePath))
    /\ SetPc(p, "in_check")

\* in_download_archive: filelock.Timeout is an IOError, which is caught
CheckLockTimeout(p) ==
    /\ Invocation(p).pc = "check"
    /\ ~CanLock(Locks, ArchivePath)
    /\ SetLocks(acquire(Locks, p, ArchivePath))
    /\ SetPc(p, "leave")

\* in_download_archive has read the archive and leaves its `with` block
CheckReturns(p) ==
    /\ Invocation(p).pc = "in_check"
    /\ SetLocks(release(Locks, p, ArchivePath))
    /\ SetPc(p, "leave")

\* the download is over and `with lock:` is left
LeaveTrack(p) ==
    /\ Invocation(p).pc = "leave"
    /\ SetLocks(release(Locks, p, TrackPath(Invocation(p).id)))
    /\ SetPc(p, IF Invocation(p).download_archive THEN "record" ELSE "next")

\* record_download_archive: `with get_filelock(archive_filename)` is entered
RecordLock(p) ==
    /\ Invocation(p).pc = "record"
    /\ CanLock(Locks, ArchivePath)
    /\ SetLocks(acquire(Locks, p, ArchivePath))
    /\ SetPc(p, "in_record")

\* record_download_archive: filelock.Timeout is an IOError, which is caught
RecordLockTimeout(p) ==
    /\ Invocation(p).pc = "record"
    /\ ~CanLock(Locks, ArchivePath)
    /\ SetLocks(acquire(Locks, p, ArchivePath))
    /\ SetPc(p, "next")

\* record_download_archive has written the id and leaves its `with` block
RecordReturns(p) ==
    /\ Invocation(p).pc = "in_record"
    /\ SetLocks(release(Locks, p, ArchivePath))
    /\ SetPc(p, "next")

\* the loop of download_playlist goes on with another track
AnotherTrack(p) ==
    /\ Invocation(p).pc = "next"
    /\ \E id \in TrackIds : invocations' = [invocations EXCEPT ![p].pc = "track", ![p].id = id]
    /\ UNCHANGED lockVars

\* The process ends: main returns after the last track, sync exits (nothing
\* to add, or an archive it cannot read), or a download inside the track
\* lock exits or raises (the file exists, an error with --strict-playlist)
ProcessEnds(p) ==
    /\ Invocation(p).pc \in {"next", "in_sync", "in_track", "leave"}
    /\ InvocationEnds(p)

\* p waits for a lock that q holds
WaitsFor(p, q) ==
    /\ p # q
    /\ WaitsForLock(p)
    /\ held[q][AcquiringPath(p)[1]] = "linked"

\* q is reached from p along at most n waits-for edges, n >= 1
RECURSIVE WaitChain(_, _, _)
WaitChain(p, q, n) ==
    \/ WaitsFor(p, q)
    \/ n > 1 /\ \E r \in Procs : WaitsFor(p, r) /\ WaitChain(r, q, n - 1)

Running == {p \in Procs : Invocation(p).pc # "none"}

\* C33: a process that is about to take a per-track lock holds no lock, in
\* particular not the archive lock, and does not wait for the per-track lock
\* (the attempt has no timeout to wait for); a process about to take a lock
\* does not hold that lock already; a process that holds the archive lock
\* is not acquiring any lock; therefore no process waits, directly or
\* through others, for a lock it holds back itself, and the running
\* processes are never all waiting for locks.
C33_LockOrderNeverDeadlocks ==
    /\ \A p \in Procs :
        /\ Invocation(p).pc = "track"
            => /\ \A path \in Paths : held[p][path] = "no"
               /\ ~WaitsForLock(p)
        /\ AcquiringPath(p) # <<>> => held[p][AcquiringPath(p)[1]] = "no"
        /\ held[p][ArchivePath] # "no" => AcquiringPath(p) = <<>>
        /\ ~WaitChain(p, p, NumProcs)
    /\ Running # {} => \E p \in Running : ~WaitsForLock(p)

\* one process holds the lock of track 1 and waits for the archive lock in
\* in_download_archive, which the other process holds in
\* record_download_archive, while the lock file of track 1 exists
C33_Witness ==
    \E p, q \in Procs :
        /\ p # q
        /\ Invocation(p).pc = "check" /\ Invocation(p).id = 1
        /\ held[p][TrackPath(1)] = "linked"
        /\ WaitsFor(p, q)
        /\ Invocation(q).pc = "in_record"

-----------------------------------------------------------------------------
(***************************************************************************)
(* The metadata step of two runs of scdl on one track.  Each run gets the  *)
(* title from SoundCloud and iterates its own set of separators; the order *)
(* of a set of strings is fixed by their hashes, which Python picks anew   *)
(* for every process.                                                      *)
(***************************************************************************)
RerunInit ==
    /\ MetaInit
    /\ original_title = title
    /\ first_run = <<>>

\* the artist extraction of the first or of the second run
ExtractArtistInRun ==
    /\ ExtractArtist
    /\ UNCHANGED rerunVars

\* the first run is over; a second run starts on the same track, with the
\* same options
SecondRun ==
    /\ meta_pc = "done"
    /\ first_run = <<>>
    /\ first_run' = <<[artist |-> artist, title |-> title]>>
    /\ title' = original_title
    /\ artist' = <<>>
    /\ meta_pc' = "artist"
    /\ UNCHANGED <<username, extract_artist, original_title>>

\* both runs are over
BothRunsOver == meta_pc = "done" /\ first_run # <<>>

\* the separators that occur in the title
SeparatorsFound == {d \in Dashes : py_in(dash_string(d), original_title)}

\* C34: two runs of the metadata step on the same title end with the same
\* artist and the same title, also for a title that holds two different
\* separators, whatever the order in which each run iterates the set of
\* separators.
C34_ArtistExtractionDeterministic ==
    BothRunsOver => artist = first_run[1].artist /\ title = first_run[1].title

\* the two runs agree on every title that holds at most one of the
\* separators, and whenever --extract-artist is not given
SingleSeparatorDeterministic ==
    BothRunsOver /\ (Cardinality(SeparatorsFound) <= 1 \/ ~extract_artist)
        => artist = first_run[1].artist /\ title = first_run[1].title

\* a title with a hyphen and an en dash as separators: the first run split at
\* one of them, the second run at the other
C34_SplitAtDifferentSeparators ==
    /\ BothRunsOver
    /\ extract_artist
    /\ Cardinality(SeparatorsFound) = 2
    /\ artist # first_run[1].artist
    /\ title # first_run[1].title

-----------------------------------------------------------------------------
(***************************************************************************)
(* The specifications.                                                     *)
(***************************************************************************)
LockInit == LockIdle /\ SizeIdle /\ CopyIdle /\ ProgIdle /\ DlIdle /\ LedIdle /\ EncIdle /\ MetaIdle /\ FfIdle /\ HistIdle /\ RerunIdle /\ OrdIdle /\ NumIdle /\ SelIdle

LockFrame == UNCHANGED <<sizeVars, copyVars, progVars, dlVars, ledVars, encVars, metaVars, ffVars, histVars, selVars, numVars, ordVars, rerunVars>>

LockNext ==
    \/ \E p \in Procs, path \in Paths : TryAcquire(p, path) /\ LockFrame
    \/ \E p \in Procs, path \in Paths : ReleaseLock(p, path) /\ LockFrame
    \/ \E p \in Procs : ProcessExit(p) /\ LockFrame

SpecLock == LockInit /\ [][LockNext]_vars

\* the size check on its own
SizeSpecInit == SizeInit /\ LockIdle /\ CopyIdle /\ ProgIdle /\ DlIdle /\ LedIdle /\ EncIdle /\ MetaIdle /\ FfIdle /\ HistIdle /\ RerunIdle /\ OrdIdle /\ NumIdle /\ SelIdle

SizeFrame == UNCHANGED <<lockVars, copyVars, progVars, dlVars, ledVars, encVars, metaVars, ffVars, histVars, selVars, numVars, ordVars, rerunVars>>

SizeNext == SizeCheck /\ SizeFrame

SpecSize == SizeSpecInit /\ [][SizeNext]_vars

\* one call of _write_streaming_response_to_pipe
CopySpecInit == CopyInit /\ LockIdle /\ ProgIdle /\ DlIdle /\ LedIdle /\ EncIdle /\ MetaIdle /\ FfIdle /\ HistIdle /\ RerunIdle /\ OrdIdle /\ NumIdle /\ SelIdle

CopyFrame == UNCHANGED <<lockVars, progVars, dlVars, ledVars, encVars, metaVars, ffVars, histVars, selVars, numVars, ordVars, rerunVars>>

CopyNext ==
    \/ CopySizeCheck /\ CopyFrame
    \/ CopyChunk /\ CopyFrame
    \/ CopyEnd /\ CopyFrame

SpecCopy == CopySpecInit /\ [][CopyNext]_vars

\* the progress loop of one transcode
ProgSpecInit == ProgInit /\ LockIdle /\ SizeIdle /\ CopyIdle /\ DlIdle /\ LedIdle /\ EncIdle /\ MetaIdle /\ FfIdle /\ HistIdle /\ RerunIdle /\ OrdIdle /\ NumIdle /\ SelIdle

ProgFrame == UNCHANGED <<lockVars, sizeVars, copyVars, dlVars, ledVars, encVars, metaVars, ffVars, histVars, selVars, numVars, ordVars, rerunVars>>

ProgNext ==
    \/ ReadDiagnosticLine /\ ProgFrame
    \/ ReadOtherProgressLine /\ ProgFrame
    \/ ReadOutTimeLine /\ ProgFrame
    \/ StderrClosed /\ ProgFrame

SpecProgress == ProgSpecInit /\ [][ProgNext]_vars

\* invocations of scdl on playlists, one after another in a directory of
\* their own
DlInit == DlIdle /\ LockIdle /\ SizeIdle /\ CopyIdle /\ ProgIdle /\ LedIdle /\ EncIdle /\ MetaIdle /\ FfIdle /\ HistIdle /\ RerunIdle /\ OrdIdle /\ NumIdle /\ SelIdle

DlFrame == UNCHANGED <<sizeVars, copyVars, progVars, ledVars, encVars, metaVars, ffVars, histVars, selVars, numVars, ordVars, rerunVars>>

DlNext ==
    \/ StartInvocation /\ DlFrame
    \/ SyncArchive /\ DlFrame
    \/ NextTrack /\ DlFrame
    \/ BeginTrack /\ DlFrame
    \/ AcquireForOriginal /\ DlFrame
    \/ DownloadOriginal /\ DlFrame
    \/ AcquireForHls /\ DlFrame
    \/ DownloadHls /\ DlFrame
    \/ Finalize /\ DlFrame
    \/ ReturnFromMain /\ DlFrame

Spec == DlInit /\ [][DlNext]_vars

\* one invocation in a directory it shares with sibling invocations, from the
\* point where main() has read the configuration under its lock; earlier
\* invocations may have left a download archive
SharedInit ==
    /\ SizeIdle /\ CopyIdle /\ ProgIdle /\ LedIdle /\ EncIdle /\ MetaIdle /\ FfIdle /\ HistIdle /\ RerunIdle /\ OrdIdle /\ NumIdle /\ SelIdle
    /\ runs = 0
    /\ kwargs \in KwargsSet
    /\ playlist \in Playlists
    /\ pc = IF kwargs.sync THEN "sync" ELSE "next"
    /\ status = "running"
    /\ idx = 0
    /\ track = NoTrack
    /\ filename = <<>>
    /\ is_already_downloaded = FALSE
    /\ files = {}
    /\ file_writes = 0
    /\ archive_exists \in BOOLEAN
    /\ ledger \in (IF archive_exists THEN {<<>>, <<py_str(1)>>} ELSE {<<>>})
    /\ fileToKeep = <<>>
    /\ outcome = "none"
    /\ at_start = NoSnapshot
    /\ rem = {}
    /\ LET none == [lockFile |-> [path \in Paths |-> FALSE],
                    held |-> [p \in Procs |-> [path \in Paths |-> "no"]],
                    file_lock_dirs |-> [p \in Procs |-> {}]]
           L == release(acquire(none, Me, ConfigPath), Me, ConfigPath)
       IN  /\ lockFile = L.lockFile
           /\ held = L.held
           /\ file_lock_dirs = L.file_lock_dirs

SharedNext ==
    \/ SyncArchive /\ DlFrame
    \/ NextTrack /\ DlFrame
    \/ BeginTrack /\ DlFrame
    \/ AcquireForOriginal /\ DlFrame
    \/ DownloadOriginal /\ DlFrame
    \/ AcquireForHls /\ DlFrame
    \/ DownloadHls /\ DlFrame
    \/ Finalize /\ DlFrame
    \/ ReturnFromMain /\ DlFrame
    \/ \E q \in Siblings, path \in SiblingPaths : SiblingAcquire(q, path) /\ DlFrame
    \/ \E q \in Siblings : SiblingExit(q) /\ DlFrame

SpecShared == SharedInit /\ [][SharedNext]_vars

\* several processes on one download archive
LedgerFrame ==
    UNCHANGED <<sizeVars, copyVars, progVars, encVars, metaVars, ffVars, histVars, selVars, numVars, ordVars, rerunVars, runs, kwargs, playlist, idx, track,
                pc, status, filename, is_already_downloaded, file_writes,
                fileToKeep, outcome, at_start, rem>>

LedgerNext ==
    \/ \E p \in Procs : WorkerStart(p) /\ LedgerFrame
    \/ \E p \in Procs, id \in TrackIds : WorkerCheck(p, id) /\ LedgerFrame
    \/ \E p \in Procs, id \in TrackIds : WorkerAppend(p, id) /\ LedgerFrame
    \/ \E p \in Procs, tracks \in Playlists : WorkerSyncLock(p, tracks) /\ LedgerFrame
    \/ \E p \in Procs : WorkerSyncRead(p) /\ LedgerFrame
    \/ \E p \in Procs : WorkerSyncRewrite(p) /\ LedgerFrame
    \/ \E p \in Procs : WorkerExit(p) /\ LedgerFrame

SpecLedger == DlInit /\ [][LedgerNext]_vars

\* sync on its own
SyncNext == SyncArchive /\ DlFrame

SpecSync == SyncInit /\ [][SyncNext]_vars

\* a --sync invocation on an archive that exists, and the invocation after it
ResyncInit ==
    /\ SizeIdle /\ CopyIdle /\ ProgIdle /\ LedIdle /\ EncIdle /\ MetaIdle /\ FfIdle /\ HistIdle /\ RerunIdle /\ OrdIdle /\ NumIdle /\ SelIdle
    /\ runs = 1
    /\ kwargs \in {kw \in KwargsSet : kw.sync}
    /\ playlist \in Playlists
    /\ pc = "sync"
    /\ status = "running"
    /\ idx = 0
    /\ track = NoTrack
    /\ filename = <<>>
    /\ is_already_downloaded = FALSE
    /\ files = {}
    /\ file_writes = 0
    /\ ledger \in ResyncLedgers
    /\ archive_exists = TRUE
    /\ fileToKeep = <<>>
    /\ outcome = "none"
    /\ at_start = NoSnapshot
    /\ rem = {}
    /\ LET none == [lockFile |-> [path \in Paths |-> FALSE],
                    held |-> [p \in Procs |-> [path \in Paths |-> "no"]],
                    file_lock_dirs |-> [p \in Procs |-> {}]]
           L == release(acquire(none, Me, ConfigPath), Me, ConfigPath)
       IN  /\ lockFile = L.lockFile
           /\ held = L.held
           /\ file_lock_dirs = L.file_lock_dirs

ResyncFrame == UNCHANGED <<sizeVars, copyVars, progVars, ledVars, encVars, metaVars, ffVars, selVars, numVars, ordVars, rerunVars>>

ResyncNext ==
    \/ StartInvocation /\ NoteStart /\ ResyncFrame
    \/ SyncArchive /\ NoteSync /\ ResyncFrame
    \/ NextTrack /\ NoteCall /\ ResyncFrame
    \/ BeginTrack /\ NoteCall /\ ResyncFrame
    \/ AcquireForOriginal /\ NoteCall /\ ResyncFrame
    \/ DownloadOriginal /\ NoteCall /\ ResyncFrame
    \/ AcquireForHls /\ NoteCall /\ ResyncFrame
    \/ DownloadHls /\ NoteCall /\ ResyncFrame
    \/ Finalize /\ NoteCall /\ ResyncFrame
    \/ ReturnFromMain /\ NoteCall /\ ResyncFrame

SpecResync == ResyncInit /\ [][ResyncNext]_vars

\* one call of re_encode_to_out
EncSpecInit == EncInit /\ LockIdle /\ ProgIdle /\ DlIdle /\ LedIdle /\ MetaIdle /\ FfIdle /\ HistIdle /\ RerunIdle /\ OrdIdle /\ NumIdle /\ SelIdle

EncFrame == UNCHANGED <<lockVars, progVars, dlVars, ledVars, metaVars, ffVars, histVars, selVars, numVars, ordVars, rerunVars>>

EncNext ==
    \/ CopySizeCheck /\ UNCHANGED encVars /\ EncFrame
    \/ CopyChunk /\ UNCHANGED encVars /\ EncFrame
    \/ CopyEnd /\ UNCHANGED encVars /\ EncFrame
    \/ CopyStreamEnds /\ UNCHANGED <<sizeVars, copyVars>> /\ EncFrame
    \/ FfmpegExits /\ UNCHANGED <<sizeVars, copyVars>> /\ EncFrame
    \/ FfmpegStarves /\ UNCHANGED <<sizeVars, copyVars>> /\ EncFrame
    \/ AddMetadata /\ UNCHANGED <<sizeVars, copyVars>> /\ EncFrame
    \/ WriteTarget /\ UNCHANGED <<sizeVars, copyVars>> /\ EncFrame

SpecEncode == EncSpecInit /\ [][EncNext]_vars

\* the artist of one track
MetaSpecInit ==
    /\ MetaInit
    /\ LockIdle /\ SizeIdle /\ CopyIdle /\ ProgIdle /\ DlIdle /\ LedIdle /\ EncIdle /\ FfIdle /\ HistIdle /\ RerunIdle /\ OrdIdle /\ NumIdle /\ SelIdle

MetaFrame ==
    UNCHANGED <<lockVars, sizeVars, copyVars, progVars, dlVars, ledVars, encVars, ffVars,
               histVars, selVars, numVars, ordVars, rerunVars>>

MetaNext == ExtractArtist /\ MetaFrame

SpecMetadata == MetaSpecInit /\ [][MetaNext]_vars

\* one transcoded download
FfSpecInit == FfInit /\ DlIdle /\ LedIdle /\ MetaIdle /\ HistIdle /\ RerunIdle /\ OrdIdle /\ NumIdle /\ SelIdle

FfFrame == UNCHANGED <<ledVars, metaVars, histVars, selVars, numVars, ordVars, rerunVars>>

FfNext ==
    \/ StartStdoutThread /\ UNCHANGED <<lockVars, sizeVars, copyVars, progVars, dlVars, encVars>> /\ FfFrame
    \/ StartStdinThread /\ UNCHANGED <<lockVars, sizeVars, copyVars, progVars, dlVars, encVars>> /\ FfFrame
    \/ FeedSizeCheck /\ UNCHANGED <<lockVars, progVars, dlVars, encVars, ffVars>> /\ FfFrame
    \/ FeedChunk /\ UNCHANGED <<lockVars, progVars, dlVars, encVars, ffVars>> /\ FfFrame
    \/ FeedEnd /\ UNCHANGED <<lockVars, progVars, dlVars, encVars, ffVars>> /\ FfFrame
    \/ FeedBrokenPipe /\ UNCHANGED <<lockVars, progVars, dlVars, encVars, ffVars>> /\ FfFrame
    \/ DrainEnds /\ UNCHANGED <<lockVars, sizeVars, copyVars, progVars, dlVars, encVars>> /\ FfFrame
    \/ EngineExits /\ UNCHANGED <<lockVars, sizeVars, copyVars, progVars, dlVars, encVars>> /\ FfFrame
    \/ EngineFails /\ UNCHANGED <<lockVars, sizeVars, copyVars, progVars, dlVars, encVars>> /\ FfFrame
    \/ ProgressLine /\ UNCHANGED <<lockVars, sizeVars, copyVars, dlVars, encVars, ffVars>> /\ FfFrame
    \/ ProgressLoopEnds /\ UNCHANGED <<lockVars, sizeVars, copyVars, dlVars, encVars>> /\ FfFrame
    \/ JoinStdoutThread /\ UNCHANGED <<lockVars, sizeVars, copyVars, progVars, dlVars, encVars>> /\ FfFrame
    \/ JoinStdinThread /\ UNCHANGED <<lockVars, sizeVars, copyVars, progVars, dlVars, encVars>> /\ FfFrame
    \/ WaitForExit /\ UNCHANGED <<lockVars, sizeVars, copyVars, progVars, dlVars>> /\ FfFrame
    \/ ReadTempFile /\ UNCHANGED <<lockVars, sizeVars, copyVars, progVars, dlVars>> /\ FfFrame
    \/ RemoveTempFile /\ UNCHANGED <<lockVars, sizeVars, copyVars, progVars, dlVars>> /\ FfFrame
    \/ AddMetadata /\ UNCHANGED <<lockVars, sizeVars, copyVars, progVars, dlVars, ffVars>> /\ FfFrame
    \/ WriteTarget /\ UNCHANGED <<lockVars, sizeVars, copyVars, progVars, dlVars, ffVars>> /\ FfFrame
    \/ LeaveTrackLock /\ UNCHANGED <<sizeVars, copyVars, progVars, encVars, ffVars>> /\ FfFrame

SpecTranscode == FfSpecInit /\ [][FfNext]_vars

\* The threads of one transcode: each is scheduled as long as it can take a
\* step, and ffmpeg exits once it has read its input to the end.  That
\* ffmpeg gives up by itself is possible and not promised.
MainThread ==
    \/ (StartStdoutThread \/ StartStdinThread \/ JoinStdoutThread \/ JoinStdinThread)
            /\ UNCHANGED <<lockVars, sizeVars, copyVars, progVars, dlVars, encVars>> /\ FfFrame
    \/ ProgressLine /\ UNCHANGED <<lockVars, sizeVars, copyVars, dlVars, encVars, ffVars>> /\ FfFrame
    \/ ProgressLoopEnds /\ UNCHANGED <<lockVars, sizeVars, copyVars, dlVars, encVars>> /\ FfFrame
    \/ (WaitForExit \/ ReadTempFile \/ RemoveTempFile)
            /\ UNCHANGED <<lockVars, sizeVars, copyVars, progVars, dlVars>> /\ FfFrame
    \/ (AddMetadata \/ WriteTarget)
            /\ UNCHANGED <<lockVars, sizeVars, copyVars, progVars, dlVars, ffVars>> /\ FfFrame
    \/ LeaveTrackLock /\ UNCHANGED <<sizeVars, copyVars, progVars, encVars, ffVars>> /\ FfFrame

FeedThread ==
    (FeedSizeCheck \/ FeedChunk \/ FeedEnd \/ FeedBrokenPipe)
        /\ UNCHANGED <<lockVars, progVars, dlVars, encVars, ffVars>> /\ FfFrame

DrainThread ==
    DrainEnds /\ UNCHANGED <<lockVars, sizeVars, copyVars, progVars, dlVars, encVars>> /\ FfFrame

EngineAtEndOfInput ==
    EngineExits /\ UNCHANGED <<lockVars, sizeVars, copyVars, progVars, dlVars, encVars>> /\ FfFrame

FairSpecTranscode ==
    /\ SpecTranscode
    /\ WF_vars(MainThread)
    /\ WF_vars(FeedThread)
    /\ WF_vars(DrainThread)
    /\ WF_vars(EngineAtEndOfInput)

\* the choice of a transcoding
SelSpecInit ==
    /\ SelInit
    /\ LockIdle /\ SizeIdle /\ CopyIdle /\ ProgIdle /\ DlIdle /\ LedIdle /\ EncIdle /\ MetaIdle
    /\ FfIdle /\ HistIdle /\ RerunIdle /\ OrdIdle /\ NumIdle

SelFrame ==
    UNCHANGED <<lockVars, sizeVars, copyVars, progVars, dlVars, ledVars, encVars, metaVars,
               ffVars, histVars, numVars, ordVars, rerunVars>>

SelNext ==
    \/ SelectTranscoding /\ SelFrame
    \/ ReturnAlreadyDownloaded /\ SelFrame
    \/ StartTransfer /\ SelFrame

SpecSelect == SelSpecInit /\ [][SelNext]_vars

\* the track numbers of a playlist
NumSpecInit ==
    /\ NumInit
    /\ LockIdle /\ SizeIdle /\ CopyIdle /\ ProgIdle /\ DlIdle /\ LedIdle /\ EncIdle /\ MetaIdle
    /\ FfIdle /\ HistIdle /\ RerunIdle /\ OrdIdle /\ SelIdle

NumFrame ==
    UNCHANGED <<lockVars, sizeVars, copyVars, progVars, dlVars, ledVars, encVars, metaVars,
               ffVars, histVars, selVars, ordVars, rerunVars>>

NumNext ==
    \/ PreparePlaylist /\ NumFrame
    \/ NumberTrack /\ NumFrame
    \/ NumberingEnds /\ NumFrame

SpecNumbering == NumSpecInit /\ [][NumNext]_vars

\* concurrent invocations and their locks
OrdSpecInit ==
    /\ OrdInit
    /\ SizeIdle /\ CopyIdle /\ ProgIdle /\ DlIdle /\ LedIdle /\ EncIdle /\ MetaIdle
    /\ FfIdle /\ HistIdle /\ RerunIdle /\ SelIdle /\ NumIdle

OrdFrame ==
    UNCHANGED <<sizeVars, copyVars, progVars, dlVars, ledVars, encVars, metaVars,
               ffVars, histVars, selVars, numVars, rerunVars>>

OrdNext ==
    \/ \E p \in Procs : StartProcess(p) /\ OrdFrame
    \/ \E p \in Procs : SyncLock(p) /\ OrdFrame
    \/ \E p \in Procs : SyncLockTimeout(p) /\ OrdFrame
    \/ \E p \in Procs : SyncReturns(p) /\ OrdFrame
    \/ \E p \in Procs : TrackLock(p) /\ OrdFrame
    \/ \E p \in Procs : ReachArchiveCheck(p) /\ OrdFrame
    \/ \E p \in Procs : CheckLock(p) /\ OrdFrame
    \/ \E p \in Procs : CheckLockTimeout(p) /\ OrdFrame
    \/ \E p \in Procs : CheckReturns(p) /\ OrdFrame
    \/ \E p \in Procs : LeaveTrack(p) /\ OrdFrame
    \/ \E p \in Procs : RecordLock(p) /\ OrdFrame
    \/ \E p \in Procs : RecordLockTimeout(p) /\ OrdFrame
    \/ \E p \in Procs : RecordReturns(p) /\ OrdFrame
    \/ \E p \in Procs : AnotherTrack(p) /\ OrdFrame
    \/ \E p \in Procs : ProcessEnds(p) /\ OrdFrame

SpecLockOrder == OrdSpecInit /\ [][OrdNext]_vars

\* the metadata step of two runs
RerunSpecInit ==
    /\ RerunInit
    /\ LockIdle /\ SizeIdle /\ CopyIdle /\ ProgIdle /\ DlIdle /\ LedIdle /\ EncIdle
    /\ FfIdle /\ HistIdle /\ SelIdle /\ NumIdle /\ OrdIdle

RerunFrame ==
    UNCHANGED <<lockVars, sizeVars, copyVars, progVars, dlVars, ledVars, encVars, ffVars,
               histVars, selVars, numVars, ordVars>>

RerunNext ==
    \/ ExtractArtistInRun /\ RerunFrame
    \/ SecondRun /\ RerunFrame

SpecRerun == RerunSpecInit /\ [][RerunNext]_vars

=============================================================================
